---------------------------- MODULE Spec2Model ----------------------------
(***************************************************************************)
(* A model of casadi's Rootfinder node (core/function/rootfinder.cpp):     *)
(* setup (Rootfinder::init behind the rootfinder factory), evaluation, the *)
(* forward and reverse sensitivity propagation through the implicit        *)
(* function theorem, and the structural (bit vector) propagation sp_fwd    *)
(* and sp_rev.                                                             *)
(*                                                                         *)
(* Floating point values are modelled by exact rationals <<num, den>>.     *)
(* A dependency word (bvec_t) is modelled by the set of its set bits.      *)
(* Inputs and outputs of the Oracle are indexed from 0, as in the code;    *)
(* the entries of a vector and the rows and columns of a matrix from 1.    *)
(***************************************************************************)
EXTENDS Integers, Sequences, FiniteSets, TLC

VARIABLES
  oracle_,    \* the residual function handed to the factory
  opts,       \* the option dictionary handed to the factory
  state,      \* "Unset", "Ready" or "Failed" (setup threw)
  err,        \* the message of the assertion that failed in setup, or NoError
  iin_,       \* Rootfinder::iin_
  iout_,      \* Rootfinder::iout_
  n_,         \* Rootfinder::n_
  u_c_,       \* Rootfinder::u_c_
  jac_f_z,    \* the function stored by set_function(jac, "jac_f_z")
  sp_jac_,    \* Rootfinder::sp_jac_
  linsol_,    \* Rootfinder::linsol_
  sz_w,       \* the size of the work vector requested by alloc_w
  nsetup,     \* how many times Rootfinder::init has run on the node
  ncalls,     \* how many evaluate / propagation calls the node has served
  last,       \* the latest call on the node: its inputs and what it returned
  w,          \* the caller's work buffers (sequences of words)
  inv,        \* the step-wise invocations of sp_fwd / sp_rev in flight
  pool,       \* the calls the caller has prepared: the inputs it will hand over
  nlp         \* the NlpSolverInternal object: its options, members, latest call

vars == <<oracle_, opts, state, err, iin_, iout_, n_, u_c_, jac_f_z, sp_jac_,
          linsol_, sz_w, nsetup, ncalls, last, w, inv, pool, nlp>>

(***************************************************************************)
(* Bounds of the model.                                                    *)
(***************************************************************************)
\* Forward / adjoint seed entries range over 0 .. MaxSeed.
MaxSeed == 1
\* A node serves at most MaxCalls calls in one behaviour.
MaxCalls == 2
\* The dependency bits of a word are 1 .. NBits.
NBits == 1

(***************************************************************************)
(* Exact rational arithmetic, standing for the doubles of the code.        *)
(***************************************************************************)
Abs(x) == IF x < 0 THEN -x ELSE x

RECURSIVE Gcd(_, _)
Gcd(a, b) == IF b = 0 THEN a ELSE Gcd(b, a % b)

\* The rational p/q (q # 0) in lowest terms with a positive denominator.
Rat(p, q) ==
  LET g == Gcd(Abs(p), Abs(q))
      s == IF q < 0 THEN -1 ELSE 1
  IN  <<(s * p) \div g, (s * q) \div g>>

RInt(k) == <<k, 1>>
RZero == <<0, 1>>
RAdd(a, b) == Rat(a[1] * b[2] + b[1] * a[2], a[2] * b[2])
RNeg(a) == <<-a[1], a[2]>>
RSub(a, b) == RAdd(a, RNeg(b))
RMul(a, b) == Rat(a[1] * b[1], a[2] * b[2])
RDiv(a, b) == Rat(a[1] * b[2], a[2] * b[1])

\* Vectors are sequences of rationals; an empty MX is the empty sequence.
\* A sequence, and a function, as an explicit tuple of values.
Tup(s) == s \o <<>>
Fcn(f) == f @@ <<>>
Zeros(k) == Tup([j \in 1..k |-> RZero])
VAdd(x, y) == Tup([j \in 1..Len(x) |-> RAdd(x[j], y[j])])
VNeg(x) == Tup([j \in 1..Len(x) |-> RNeg(x[j])])

RECURSIVE RSum(_)
RSum(s) == IF s = <<>> THEN RZero ELSE RAdd(Head(s), RSum(Tail(s)))

Dot(x, y) == RSum(Tup([j \in 1..Len(x) |-> RMul(x[j], y[j])]))

\* Matrices are sequences of rows.  NRows / NCols of a k x 0 matrix: k, 0.
NRows(M) == Len(M)
NCols(M) == IF Len(M) = 0 THEN 0 ELSE Len(M[1])
Transpose(M) == Tup([c \in 1..NCols(M) |-> Tup([r \in 1..NRows(M) |-> M[r][c]])])
MatVec(M, x) == Tup([r \in 1..NRows(M) |-> Dot(M[r], x)])
RMat(M) == Tup([r \in 1..NRows(M) |-> Tup([c \in 1..NCols(M) |-> RInt(M[r][c])])])

\* M without row i and column j.
Minor(M, i, j) ==
  Tup([r \in 1..(NRows(M) - 1) |->
     Tup([c \in 1..(NCols(M) - 1) |->
        M[IF r < i THEN r ELSE r + 1][IF c < j THEN c ELSE c + 1]])])

\* Determinant by expansion along the first row.
RECURSIVE Det(_)
Det(M) ==
  IF NRows(M) = 0 THEN RInt(1)
  ELSE RSum(Tup([j \in 1..NRows(M) |->
               RMul(IF j % 2 = 1 THEN M[1][j] ELSE RNeg(M[1][j]),
                    Det(Minor(M, 1, j)))]))

\* M with column j replaced by the vector b.
ReplaceCol(M, j, b) ==
  Tup([r \in 1..NRows(M) |-> Tup([c \in 1..NCols(M) |-> IF c = j THEN b[r] ELSE M[r][c]])])

\* The Linear Solve Service: the x with A x = b (tr = FALSE) or A^T x = b
\* (tr = TRUE), for a numerically non-singular square A (Cramer's rule).
LinsolSolve(A, b, tr) ==
  LET M == IF tr THEN Transpose(A) ELSE A
      d == Det(M)
  IN  Tup([j \in 1..NRows(M) |-> RDiv(Det(ReplaceCol(M, j, b)), d)])


(***************************************************************************)
(* Sparsity patterns.  The sparsity of an input or output is               *)
(* [nrow, ncol, nnz]; the sparsity of a Jacobian is [nrow, ncol, nz] with  *)
(* nz the set of its structurally non-zero <<row, col>> positions.         *)
(***************************************************************************)
\* A null pointer in place of a vector of words; an empty MX.
Null == <<>>
\* A null Function, and the sparsity of one.
NullSparsity == [nrow |-> 0, ncol |-> 0, nz |-> {}]
NullFunction == [sp |-> NullSparsity, val |-> <<>>, sz_w |-> 0]

is_dense(sp) == sp.nnz = sp.nrow * sp.ncol
is_column(sp) == sp.ncol = 1

\* A perfect matching of the rows R with the columns C inside the pattern nz.
RECURSIVE Matching(_, _, _)
Matching(R, C, nz) ==
  IF R = {} THEN C = {}
  ELSE LET r == CHOOSE x \in R : TRUE
       IN  \E c \in C : <<r, c>> \in nz /\ Matching(R \ {r}, C \ {c}, nz)

\* The structural rank: the size of a largest matching.
RECURSIVE sprankOf(_, _, _)
sprankOf(R, C, nz) ==
  IF R = {} \/ C = {} THEN 0
  ELSE LET r == CHOOSE x \in R : TRUE
           skip == sprankOf(R \ {r}, C, nz)
           use == {1 + sprankOf(R \ {r}, C \ {c}, nz) : c \in {x \in C : <<r, x>> \in nz}}
       IN  CHOOSE m \in use \cup {skip} : \A k \in use \cup {skip} : k <= m

sprank(sp) == sprankOf(1..sp.nrow, 1..sp.ncol, sp.nz)

\* Structural singularity: no perfect matching between rows and columns.
is_singular(sp) == ~Matching(1..sp.nrow, 1..sp.ncol, sp.nz)

\* Position <<c, r>> of the structural inverse: the cofactor of <<r, c>>,
\* which is structurally non-zero iff the minor without row r and column c
\* has a perfect matching.
InvNz(sp, r, c) ==
  /\ r \in 1..sp.nrow
  /\ c \in 1..sp.ncol
  /\ Matching((1..sp.nrow) \ {r}, (1..sp.ncol) \ {c}, sp.nz)

\* Sparsity::spsolve(X, B, tr): the boolean solve.  X[c] |= B[r] for every
\* <<c, r>> of the structural inverse (tr = FALSE), or of its transpose.
spsolve(sp, X, B, tr) ==
  [k \in 1..Len(X) |->
     X[k] \cup UNION {B[j] : j \in {x \in 1..Len(B) :
                                      IF tr THEN InvNz(sp, k, x) ELSE InvNz(sp, x, k)}}]

(***************************************************************************)
(* The Oracle: n_in inputs, n_out outputs, their sparsities, and for every *)
(* output o and input i the block <<o, i>> of its derivative: dep, the     *)
(* structural pattern, and lin, its numeric value at the evaluation point. *)
(***************************************************************************)
Ins(orc) == 0..(orc.n_in - 1)
Outs(orc) == 0..(orc.n_out - 1)
nnz_in(orc, i) == orc.sp_in[i].nnz
nnz_out(orc, o) == orc.sp_out[o].nnz
\* The entries <<input, index>> of all inputs, <<output, index>> of all outputs.
InEntries(orc) == UNION {{<<i, c>> : c \in 1..nnz_in(orc, i)} : i \in Ins(orc)}
OutEntries(orc) == UNION {{<<o, r>> : r \in 1..nnz_out(orc, o)} : o \in Outs(orc)}

\* oracle_.jacobian(i, o): the derivative of output o with respect to input i.
OracleJacobian(orc, i, o) ==
  [sp |-> [nrow |-> nnz_out(orc, o), ncol |-> nnz_in(orc, i), nz |-> orc.dep[<<o, i>>]],
   val |-> orc.lin[<<o, i>>],
   sz_w |-> orc.sz_w + nnz_out(orc, o)]

\* Forward mode of the Oracle: output seed o = sum over i of lin<<o,i>> * seed i.
RECURSIVE VSum(_, _)
VSum(k, s) == IF s = <<>> THEN Zeros(k) ELSE VAdd(Head(s), VSum(k, Tail(s)))

OracleForward(orc, seed) ==
  Fcn([o \in Outs(orc) |->
     VSum(nnz_out(orc, o),
          Tup([j \in 1..orc.n_in |-> MatVec(RMat(orc.lin[<<o, j - 1>>]), seed[j - 1])]))])

\* Reverse mode of the Oracle: adjoint i = (what asens holds, an empty entry
\* counting as zero) + sum over o of lin<<o,i>>^T * adjoint seed o.
OracleReverse(orc, aseed, asens) ==
  Fcn([i \in Ins(orc) |->
     VAdd(IF asens[i] = <<>> THEN Zeros(nnz_in(orc, i)) ELSE asens[i],
          VSum(nnz_in(orc, i),
               Tup([j \in 1..orc.n_out |->
                  MatVec(Transpose(RMat(orc.lin[<<j - 1, i>>])), aseed[j - 1])])))])

\* Structural forward propagation of the Oracle: every requested output is
\* overwritten by the OR of the bits of the input entries it depends on; a
\* null input carries no dependency.
OracleSpFwd(orc, arg, res) ==
  [o \in Outs(orc) |->
     IF res[o] = Null THEN Null
     ELSE [r \in 1..nnz_out(orc, o) |->
             UNION {arg[p[1]][p[2]] :
                      p \in {q \in InEntries(orc) :
                               /\ arg[q[1]] # Null
                               /\ <<r, q[2]>> \in orc.dep[<<o, q[1]>>]}}]]

\* Structural reverse propagation of the Oracle: the bits of every non-null
\* output are OR-ed into the non-null inputs it depends on, then cleared.
OracleSpRev(orc, arg, res) ==
  [arg |->
     [i \in Ins(orc) |->
        IF arg[i] = Null THEN Null
        ELSE [c \in 1..nnz_in(orc, i) |->
                arg[i][c] \cup
                UNION {res[p[1]][p[2]] :
                         p \in {q \in OutEntries(orc) :
                                  /\ res[q[1]] # Null
                                  /\ <<q[2], c>> \in orc.dep[<<q[1], i>>]}}]],
   res |->
     [o \in Outs(orc) |->
        IF res[o] = Null THEN Null ELSE [r \in 1..nnz_out(orc, o) |-> {}]]]


(***************************************************************************)
(* Setup: Rootfinder::init, run once by the factory rootfinder().          *)
(***************************************************************************)
Error(msg, info) == [msg |-> msg, info |-> info]
NoError == Error("none", <<>>)
InputRangeMsg == "Implicit input not in range"
OutputRangeMsg == "Implicit output not in range"
ResidualDenseMsg == "Residual must be a dense vector"
UnknownDenseMsg == "Unknown must be a dense vector"
DimensionMsg == "Dimension mismatch. Input size is, while output size is"
SingularMsg == "Rootfinder::init: singularity - the jacobian is structurally rank-deficient. sprank(J)= (instead of )"
ConstraintMsg == "Constraint vector if supplied, must be of length n, but got and n ="

\* The assertions of Rootfinder::init, in the order of the code.
ImplicitInputInRange(orc, iin) == iin >= 0 /\ iin < orc.n_in /\ orc.n_in > 0
ImplicitOutputInRange(orc, iout) == iout >= 0 /\ iout < orc.n_out /\ orc.n_out > 0
ResidualIsDenseVector(orc, iout) ==
  is_dense(orc.sp_out[iout]) /\ is_column(orc.sp_out[iout])
UnknownIsDenseVector(orc, iin) ==
  is_dense(orc.sp_in[iin]) /\ is_column(orc.sp_in[iin])
DimensionMatch(orc, iin, n) == n = nnz_in(orc, iin)
\* (A setup without the singularity check, and one without the check of
\* the constraint vector: the faults C1 and C2 must tell from the code.)
SingularJacobianAccepted(sp) == TRUE
JacobianNonSingular(sp) == ~is_singular(sp)
AnyConstraintsAccepted(u_c, n) == TRUE
ConstraintsLengthOk(u_c, n) == Len(u_c) = n \/ u_c = <<>>

\* A Linsol that is not constructed yet.
NoLinsol == [solver |-> "", prepared |-> FALSE, sp |-> NullSparsity]

\* The option loop: an option that is given overrides the constructor's value.
ReadOption(o, key, default) == IF key \in o.given THEN o[key] ELSE default

\* The end of Rootfinder::init, on the node built with the Jacobian: the
\* check for structural singularity, the linear solver, the check of the
\* constraints, the allocation of sz words of work.
\* (ConstraintsThenJacobian: the constraints checked first.)
ConstraintsThenJacobian(built, linear_solver, u_c, sz) ==
  IF ~ConstraintsLengthOk(u_c, built.n)
  THEN [built EXCEPT !.err = Error(ConstraintMsg, <<Len(u_c), built.n>>)]
  ELSE IF ~JacobianNonSingular(built.sp_jac)
  THEN [built EXCEPT
          !.err = Error(SingularMsg, <<sprank(built.sp_jac), built.sp_jac.nrow>>)]
  ELSE [built EXCEPT !.state = "Ready", !.sz_w = sz,
                     !.linsol = [solver |-> linear_solver, prepared |-> FALSE,
                                 sp |-> NullSparsity]]
JacobianThenConstraints(built, linear_solver, u_c, sz) ==
  IF ~JacobianNonSingular(built.sp_jac)
  THEN [built EXCEPT
          !.err = Error(SingularMsg, <<sprank(built.sp_jac), built.sp_jac.nrow>>)]
  ELSE
  LET linsol == [solver |-> linear_solver, prepared |-> FALSE, sp |-> NullSparsity]
      solved == [built EXCEPT !.linsol = linsol]
  IN
  IF ~ConstraintsLengthOk(u_c, built.n)
  THEN [solved EXCEPT !.err = Error(ConstraintMsg, <<Len(u_c), built.n>>)]
  ELSE [solved EXCEPT !.state = "Ready", !.sz_w = sz]

\* Rootfinder::init on a node whose members hold iin0, iout0, n0, u_c0: the
\* node's members after it, with state "Ready", or "Failed" and the message
\* of the first assertion that fails.
Rootfinder_init(orc, o, iin0, iout0, n0, u_c0) ==
  LET iin == ReadOption(o, "implicit_input", iin0)
      iout == ReadOption(o, "implicit_output", iout0)
      u_c == ReadOption(o, "constraints", u_c0)
      linear_solver == ReadOption(o, "linear_solver", "csparse")
      node == [state |-> "Failed", err |-> NoError, iin |-> iin, iout |-> iout,
               n |-> n0, u_c |-> u_c, jac |-> NullFunction, sp_jac |-> NullSparsity,
               linsol |-> NoLinsol, sz_w |-> 0]
  IN
  IF ~ImplicitInputInRange(orc, iin)
  THEN [node EXCEPT !.err = Error(InputRangeMsg, <<>>)]
  ELSE IF ~ImplicitOutputInRange(orc, iout)
  THEN [node EXCEPT !.err = Error(OutputRangeMsg, <<>>)]
  ELSE IF ~ResidualIsDenseVector(orc, iout)
  THEN [node EXCEPT !.err = Error(ResidualDenseMsg, <<>>)]
  ELSE IF ~UnknownIsDenseVector(orc, iin)
  THEN [node EXCEPT !.err = Error(UnknownDenseMsg, <<>>)]
  ELSE
  LET n == nnz_out(orc, iout) IN
  IF ~DimensionMatch(orc, iin, n)
  THEN [node EXCEPT !.n = n,
                    !.err = Error(DimensionMsg,
                                  <<nnz_in(orc, iin), nnz_out(orc, iout)>>)]
  ELSE
  LET given == ReadOption(o, "jacobian_function", NullFunction)
      jac == IF given = NullFunction THEN OracleJacobian(orc, iin, iout) ELSE given
      sp_jac == jac.sp
      built == [node EXCEPT !.n = n, !.jac = jac, !.sp_jac = sp_jac]
  IN
  JacobianThenConstraints(built, linear_solver, u_c,
                          (IF orc.sz_w >= jac.sz_w THEN orc.sz_w ELSE jac.sz_w) + 2 * n)


(***************************************************************************)
(* Forward and reverse sensitivity propagation.  A seed of one direction   *)
(* is a function from the input (output) indices to vectors.               *)
(***************************************************************************)
\* What J->getSolve needs of the Linear Solve Service: a square J of the
\* size of the right-hand side, numerically non-singular.
LinsolCanSolve(J, k) == NRows(J) = k /\ NCols(J) = k /\ Det(RMat(J)) # RZero

\* f_fseed[d].at(iin_) = MX(size_in(iin_)): ignore seeds for guess.
\* (GuessSeedKept: the seed of the guess left in place, the fault C3 must
\* tell from the code.)
GuessSeedKept(sd, iin, zero) == sd
IgnoreGuessSeed(sd, iin, zero) == [sd EXCEPT ![iin] = zero]

\* -horzcat(rhs): the right-hand side of the solve is the negated seed.
\* (RhsNotNegated: the fault C4 must tell from the code.)
RhsNotNegated(v) == v
NegatedRhs(v) == VNeg(v)

\* asens[d][i] += asens_aux[d][i]: add contribution from auxiliary outputs.
\* (AuxContributionDropped: the fault C5 must tell from the code.)
AuxContributionDropped(a, aux) == a
AddAuxContribution(a, aux) == VAdd(a, aux)

\* f_aseed[d][i] after the solve: the solution on iout_, and a zero on every
\* other output, to avoid counting the auxiliary seeds twice.
\* (AuxSeedsKept: the auxiliary seeds left in place for the second pass.)
AuxSeedsKept(orc, iout, f_aseed, sol) == [f_aseed EXCEPT ![iout] = sol]
SeedOfSecondPass(orc, iout, f_aseed, sol) ==
  Fcn([o \in Outs(orc) |-> IF o = iout THEN sol ELSE Zeros(nnz_out(orc, o))])

\* asens[d][iin_] = tmp[d]: no dependency on guess (2).
\* (GuessAdjointOverwritten: what the Oracle's reverse pass left on iin_.)
GuessAdjointOverwritten(a, iin, tmp) == a
NoDependencyOnGuess(a, iin, tmp) == [a EXCEPT ![iin] = tmp]

\* fsens[d][iout_] = f_fseed[d][iin_]: otherwise overwritten by the second
\* pass.  (ResidualSeedReturned: the seed of iout_ the second pass left.)
ResidualSeedReturned(fsens, iout, dz) == fsens
SolvedSeedReturned(fsens, iout, dz) == [fsens EXCEPT ![iout] = dz]

\* Rootfinder::forward.  fseed: the sequence of the nfwd directions.
\* Returns the forward sensitivities fsens, with the number of passes
\* through the Oracle and of (batched) linear solves that were made.
RootfinderForward(orc, jac, iin, iout, fseed) ==
  LET nfwd == Len(fseed)
      D == 1..nfwd
      zero == Zeros(nnz_in(orc, iin))
      \* ignore seeds for guess
      f_fseed == Tup([d \in D |-> IgnoreGuessSeed(fseed[d], iin, zero)])
      fsens1 == Tup([d \in D |-> OracleForward(orc, f_fseed[d])])
      J == RMat(jac.val)
      \* solve for all the forward derivatives at once
      rhs == Tup([d \in D |-> LinsolSolve(J, NegatedRhs(fsens1[d][iout]), FALSE)])
      fsens2 == Tup([d \in D |-> [fsens1[d] EXCEPT ![iout] = rhs[d]]])
      \* propagate to auxiliary outputs
      f_fseed2 == Tup([d \in D |-> [f_fseed[d] EXCEPT ![iin] = fsens2[d][iout]]])
      fsens3 == Tup([d \in D |-> OracleForward(orc, f_fseed2[d])])
      fsens4 == Tup([d \in D |-> SolvedSeedReturned(fsens3[d], iout, f_fseed2[d][iin])])
  IN
  IF nfwd = 0 THEN [ok |-> TRUE, fsens |-> <<>>, passes |-> 0, solves |-> 0]
  ELSE IF ~LinsolCanSolve(jac.val, nnz_out(orc, iout))
  THEN [ok |-> FALSE, fsens |-> <<>>, passes |-> 1, solves |-> 1]
  ELSE IF orc.n_out > 1
  THEN [ok |-> TRUE, fsens |-> fsens4, passes |-> 2, solves |-> 1]
  ELSE [ok |-> TRUE, fsens |-> fsens2, passes |-> 1, solves |-> 1]

\* Rootfinder::reverse.  aseed: the sequence of the nadj directions; asens:
\* what the caller's adjoint accumulators hold (<<>> for an empty one).
RootfinderReverse(orc, jac, iin, iout, aseed, asens) ==
  LET nadj == Len(aseed)
      D == 1..nadj
      zero == Zeros(nnz_in(orc, iin))
      J == RMat(jac.val)
      empty == Fcn([i \in Ins(orc) |-> <<>>])
      \* adjoint seeds for calling f: zero residual seed
      f_aseed == Tup([d \in D |-> [aseed[d] EXCEPT ![iout] = zero]])
      \* propagate dependencies from auxiliary outputs
      asens_aux == Tup([d \in D |-> OracleReverse(orc, f_aseed[d], empty)])
      rhs == Tup([d \in D |->
                IF orc.n_out > 1 THEN VAdd(asens_aux[d][iin], aseed[d][iout])
                ELSE aseed[d][iout]])
      \* solve for all the adjoint seeds at once
      sol == Tup([d \in D |-> LinsolSolve(J, NegatedRhs(rhs[d]), TRUE)])
      f_aseed2 == Tup([d \in D |-> SeedOfSecondPass(orc, iout, f_aseed[d], sol[d])])
      \* no dependency on guess (1)
      tmp == Tup([d \in D |-> IF asens[d][iin] = <<>> THEN zero ELSE asens[d][iin]])
      \* propagate through f_
      asens2 == Tup([d \in D |-> OracleReverse(orc, f_aseed2[d], asens[d])])
      \* no dependency on guess (2)
      asens3 == Tup([d \in D |-> NoDependencyOnGuess(asens2[d], iin, tmp[d])])
      \* add contribution from auxiliary outputs
      asens4 == Tup([d \in D |->
                   Fcn([i \in Ins(orc) |->
                      IF i # iin THEN AddAuxContribution(asens3[d][i], asens_aux[d][i])
                      ELSE asens3[d][i]])])
  IN
  IF nadj = 0 THEN [ok |-> TRUE, asens |-> <<>>, passes |-> 0, solves |-> 0]
  ELSE IF ~LinsolCanSolve(jac.val, nnz_out(orc, iout))
  THEN [ok |-> FALSE, asens |-> <<>>,
        passes |-> IF orc.n_out > 1 THEN 1 ELSE 0, solves |-> 1]
  ELSE IF orc.n_out > 1
  THEN [ok |-> TRUE, asens |-> asens4, passes |-> 2, solves |-> 1]
  ELSE [ok |-> TRUE, asens |-> asens3, passes |-> 1, solves |-> 1]


(***************************************************************************)
(* Structural propagation.  nd = [orc, sp_jac, n, iin, iout] are the       *)
(* members of the node a call reads; c = [arg, res, tmp1, tmp2, calls] are *)
(* the caller's input and output words (Null for a null pointer), the two  *)
(* scratch vectors at the head of the work buffer w, and the number of     *)
(* calls of the Oracle made so far.  Each step maps c to c after the step; *)
(* a call is its five steps in order.                                      *)
(***************************************************************************)
NoBits(k) == [j \in 1..k |-> {}]

\* sp_fwd, lines 258-264: the Oracle with no dependency on the unknown,
\* only the residual requested, written to tmp1.
\* (SpFwdResidualOfGuess: the words of the unknown left in place for the
\* first pass.)
SpFwdResidualOfGuess(nd, c) ==
  LET res1 == [o \in Outs(nd.orc) |-> IF o = nd.iout THEN c.tmp1 ELSE Null]
  IN  [c EXCEPT !.tmp1 = OracleSpFwd(nd.orc, c.arg, res1)[nd.iout],
                !.calls = c.calls + 1]
SpFwdResidual(nd, c) ==
  LET arg1 == [c.arg EXCEPT ![nd.iin] = Null]
      res1 == [o \in Outs(nd.orc) |-> IF o = nd.iout THEN c.tmp1 ELSE Null]
  IN  [c EXCEPT !.tmp1 = OracleSpFwd(nd.orc, arg1, res1)[nd.iout],
                !.calls = c.calls + 1]

\* sp_fwd, line 267 / sp_rev, line 306: fill_n(tmp2, n_, 0).
\* (SpClearTmp2Skipped: tmp2 left as it is, the fault C10 must tell from
\* the code.)
SpClearTmp2Skipped(nd, c) == c
SpClearTmp2(nd, c) == [c EXCEPT !.tmp2 = NoBits(nd.n)]

\* sp_fwd, line 268: "solve" in order to propagate to z.
SpFwdSolve(nd, c) == [c EXCEPT !.tmp2 = spsolve(nd.sp_jac, c.tmp2, c.tmp1, FALSE)]

\* sp_fwd, line 269: copy tmp2 to res[iout_] when the caller asked for it.
SpFwdCopy(nd, c) ==
  IF c.res[nd.iout] # Null THEN [c EXCEPT !.res[nd.iout] = c.tmp2] ELSE c

\* sp_fwd, lines 272-277: propagate to the auxiliary outputs.
\* (SpFwdAuxSkipped: the second pass left out, the fault C6 must tell from
\* the code.)
SpFwdAuxSkipped(nd, c) == c
SpFwdAux(nd, c) ==
  IF nd.orc.n_out > 1
  THEN LET arg1 == [c.arg EXCEPT ![nd.iin] = c.tmp2]
           res1 == [c.res EXCEPT ![nd.iout] = Null]
           out == OracleSpFwd(nd.orc, arg1, res1)
       IN  [c EXCEPT !.res = [o \in Outs(nd.orc) |->
                                IF o = nd.iout THEN c.res[o] ELSE out[o]],
                     !.calls = c.calls + 1]
  ELSE c

\* sp_rev, lines 287-292: get and clear the seed of the residual output.
\* (SpRevSeedStale: tmp1 left as it is when there is no buffer for iout_.)
SpRevSeedStale(nd, c) ==
  IF c.res[nd.iout] # Null
  THEN [c EXCEPT !.tmp1 = c.res[nd.iout], !.res[nd.iout] = NoBits(nd.n)]
  ELSE c
SpRevSeed(nd, c) ==
  IF c.res[nd.iout] # Null
  THEN [c EXCEPT !.tmp1 = c.res[nd.iout], !.res[nd.iout] = NoBits(nd.n)]
  ELSE [c EXCEPT !.tmp1 = NoBits(nd.n)]

\* sp_rev, lines 295-303: propagate from the auxiliary outputs to z (tmp1)
\* and to the inputs.
\* (SpRevAuxSkipped: the pass left out, the fault C7 must tell from the code.)
SpRevAuxSkipped(nd, c) == c
SpRevAux(nd, c) ==
  IF nd.orc.n_out > 1
  THEN LET arg1 == [c.arg EXCEPT ![nd.iin] = c.tmp1]
           res1 == [c.res EXCEPT ![nd.iout] = Null]
           r == OracleSpRev(nd.orc, arg1, res1)
       IN  [c EXCEPT !.arg = [i \in Ins(nd.orc) |->
                                IF i = nd.iin THEN c.arg[i] ELSE r.arg[i]],
                     !.tmp1 = r.arg[nd.iin],
                     !.res = [o \in Outs(nd.orc) |->
                                IF o = nd.iout THEN c.res[o] ELSE r.res[o]],
                     !.calls = c.calls + 1]
  ELSE c

\* sp_rev, line 307: "solve" in order to get the seed.
\* (SpRevSolveNotTransposed: the solve of sp_fwd in its place.)
SpRevSolveNotTransposed(nd, c) ==
  [c EXCEPT !.tmp2 = spsolve(nd.sp_jac, c.tmp2, c.tmp1, FALSE)]
SpRevSolve(nd, c) == [c EXCEPT !.tmp2 = spsolve(nd.sp_jac, c.tmp2, c.tmp1, TRUE)]

\* sp_rev, lines 310-313: propagate tmp2 through the Oracle to the inputs;
\* the unknown is just a guess and receives nothing.
SpRevInputs(nd, c) ==
  LET res1 == [o \in Outs(nd.orc) |-> IF o = nd.iout THEN c.tmp2 ELSE Null]
      arg1 == [c.arg EXCEPT ![nd.iin] = Null]
      r == OracleSpRev(nd.orc, arg1, res1)
  IN  [c EXCEPT !.arg = [i \in Ins(nd.orc) |->
                           IF i = nd.iin THEN c.arg[i] ELSE r.arg[i]],
                !.tmp2 = r.res[nd.iout],
                !.calls = c.calls + 1]

\* Step k (1..5) of sp_fwd or of sp_rev.
NSteps == 5
SpStep(op, k, nd, c) ==
  IF op = "sp_fwd"
  THEN CASE k = 1 -> SpFwdResidual(nd, c)
         [] k = 2 -> SpClearTmp2(nd, c)
         [] k = 3 -> SpFwdSolve(nd, c)
         [] k = 4 -> SpFwdCopy(nd, c)
         [] k = 5 -> SpFwdAux(nd, c)
  ELSE CASE k = 1 -> SpRevSeed(nd, c)
         [] k = 2 -> SpRevAux(nd, c)
         [] k = 3 -> SpClearTmp2(nd, c)
         [] k = 4 -> SpRevSolve(nd, c)
         [] k = 5 -> SpRevInputs(nd, c)

\* Steps k .. NSteps in order.
RECURSIVE SpRunFrom(_, _, _, _)
SpRunFrom(op, k, nd, c) ==
  IF k > NSteps THEN c ELSE SpRunFrom(op, k + 1, nd, SpStep(op, k, nd, c))

\* Rootfinder::sp_fwd and Rootfinder::sp_rev as whole calls.
RootfinderSpFwd(nd, c) == SpRunFrom("sp_fwd", 1, nd, c)
RootfinderSpRev(nd, c) == SpRunFrom("sp_rev", 1, nd, c)


(***************************************************************************)
(* The inputs a caller hands to the propagation calls.                     *)
(***************************************************************************)
SeedVals == {RInt(k) : k \in 0..MaxSeed}
Bits == 1..NBits
\* A dependency word: no bit, or one bit.
Words == {{}} \cup {{b} : b \in Bits}
AllBits(k) == [j \in 1..k |-> Bits]

\* One direction of forward seeds, one per input.
FwdSeedSet(orc) ==
  {sd \in [Ins(orc) -> UNION {[1..nnz_in(orc, i) -> SeedVals] : i \in Ins(orc)}] :
     \A i \in Ins(orc) : Len(sd[i]) = nnz_in(orc, i)}
\* One direction of adjoint seeds, one per output.
AdjSeedSet(orc) ==
  {sd \in [Outs(orc) -> UNION {[1..nnz_out(orc, o) -> SeedVals] : o \in Outs(orc)}] :
     \A o \in Outs(orc) : Len(sd[o]) = nnz_out(orc, o)}
\* The adjoint accumulators of one direction: all empty, or all holding ones.
EmptyAcc(orc) == [i \in Ins(orc) |-> <<>>]
OnesAcc(orc) == [i \in Ins(orc) |-> [j \in 1..nnz_in(orc, i) |-> RInt(1)]]
AdjAccSet(orc) == {EmptyAcc(orc), OnesAcc(orc)}

\* The words of the inputs: a word per entry, or a null pointer for the
\* unknown; the words of the outputs: a word per entry, or a null pointer
\* for the residual.
ArgWordSet(orc, iin) ==
  {a \in [Ins(orc) -> UNION {[1..nnz_in(orc, i) -> Words] : i \in Ins(orc)} \cup {Null}] :
     \A i \in Ins(orc) : IF a[i] = Null THEN i = iin ELSE Len(a[i]) = nnz_in(orc, i)}
ResWordSet(orc, iout) ==
  {r \in [Outs(orc) -> UNION {[1..nnz_out(orc, o) -> Words] : o \in Outs(orc)} \cup {Null}] :
     \A o \in Outs(orc) : IF r[o] = Null THEN o = iout ELSE Len(r[o]) = nnz_out(orc, o)}
\* Output buffers whose content does not matter (sp_fwd overwrites them).
ResBufSet(orc, iout) ==
  {[o \in Outs(orc) |-> IF o = iout /\ null THEN Null ELSE NoBits(nnz_out(orc, o))] :
     null \in BOOLEAN}
\* Input words that hold what earlier propagation left: nothing, or all bits.
ArgAccSet(orc) ==
  {[i \in Ins(orc) |-> NoBits(nnz_in(orc, i))], [i \in Ins(orc) |-> AllBits(nnz_in(orc, i))]}

\* The calls a caller may make: forward with no direction or one, reverse
\* with no direction or one, sp_fwd, sp_rev.
FwdCalls(orc) == {<<>>} \cup {<<sd>> : sd \in FwdSeedSet(orc)}
AdjCalls(orc) ==
  {[aseed |-> <<>>, asens |-> <<>>]} \cup
  {[aseed |-> <<sd>>, asens |-> <<a>>] : sd \in AdjSeedSet(orc), a \in AdjAccSet(orc)}
SpFwdCalls(orc, iin, iout) ==
  {[arg |-> a, res |-> r] : a \in ArgWordSet(orc, iin), r \in ResBufSet(orc, iout)}
SpRevCalls(orc, iin, iout) ==
  {[arg |-> a, res |-> r] : a \in ArgAccSet(orc), r \in ResWordSet(orc, iout)}

\* The calls a caller has prepared, by operation.
NoPool == [fwd |-> {}, adj |-> {}, spf |-> {}, spr |-> {}]

(***************************************************************************)
(* The node and the calls on it.                                           *)
(***************************************************************************)
Node == [orc |-> oracle_, sp_jac |-> sp_jac_, n |-> n_, iin |-> iin_, iout |-> iout_]

NoCall == [op |-> "none"]

\* What every call leaves alone: the members set by the constructor and setup.
Members == <<oracle_, opts, state, err, iin_, iout_, n_, u_c_, jac_f_z, sp_jac_,
             sz_w, nsetup>>

\* rootfinder(name, solver, f, opts): the factory instantiates the node,
\* whose constructor sets iin_ = iout_ = 0, and runs setup on it once.
rootfinder ==
  /\ state = "Unset"
  /\ LET r == Rootfinder_init(oracle_, opts, iin_, iout_, n_, u_c_) IN
       /\ state' = r.state
       /\ err' = r.err
       /\ iin_' = r.iin
       /\ iout_' = r.iout
       /\ n_' = r.n
       /\ u_c_' = r.u_c
       /\ jac_f_z' = r.jac
       /\ sp_jac_' = r.sp_jac
       /\ linsol_' = r.linsol
       /\ sz_w' = r.sz_w
  /\ nsetup' = nsetup + 1
  /\ UNCHANGED <<oracle_, opts, ncalls, last, w, inv, pool, nlp>>

\* linsol_.reset(sp): the symbolic preparation for the sparsity sp.
\* (LinsolResetUnkeyed: a preparation that ignores the sparsity, the fault
\* C9 must tell from the code.)
LinsolResetUnkeyed(ls, sp) == [ls EXCEPT !.prepared = TRUE]
LinsolReset(ls, sp) == [ls EXCEPT !.prepared = TRUE, !.sp = sp]

\* Rootfinder::init_memory: the linear solver is prepared for sp_jac_.
init_memory ==
  /\ state = "Ready"
  /\ linsol_' = LinsolReset(linsol_, sp_jac_)
  /\ UNCHANGED <<Members, ncalls, last, w, inv, pool, nlp>>

\* A call on the node a caller got from the factory.
\* (CallBeforeSetup: a factory that hands out the node before its setup,
\* the fault C8 must tell from the code.)
CallBeforeSetup == state # "Failed" /\ ncalls < MaxCalls /\ inv = <<>>
CanCall == state = "Ready" /\ ncalls < MaxCalls /\ inv = <<>>

\* Rootfinder::eval: setup(mem, ...) and the plugin's solve(mem), which
\* converges to a root or fails.
eval ==
  /\ CanCall
  /\ linsol_.prepared
  /\ \E outcome \in {"Converged", "ConvergenceFailure"} :
       last' = [op |-> "eval", ret |-> outcome]
  /\ ncalls' = ncalls + 1
  /\ UNCHANGED <<Members, linsol_, w, inv, pool, nlp>>

\* Rootfinder::forward.
forward ==
  /\ CanCall
  /\ \E fseed \in pool.fwd :
       last' = [op |-> "forward", fseed |-> fseed,
                ret |-> RootfinderForward(oracle_, jac_f_z, iin_, iout_, fseed)]
  /\ ncalls' = ncalls + 1
  /\ UNCHANGED <<Members, linsol_, w, inv, pool, nlp>>

\* Rootfinder::reverse.
reverse ==
  /\ CanCall
  /\ \E c \in pool.adj :
       last' = [op |-> "reverse", aseed |-> c.aseed, asens |-> c.asens,
                ret |-> RootfinderReverse(oracle_, jac_f_z, iin_, iout_, c.aseed, c.asens)]
  /\ ncalls' = ncalls + 1
  /\ UNCHANGED <<Members, linsol_, w, inv, pool, nlp>>

\* The two scratch vectors at the head of a work buffer: tmp1 = w, w += n_,
\* tmp2 = w, w += n_.
Scratch(buf, n) == [tmp1 |-> SubSeq(buf, 1, n), tmp2 |-> SubSeq(buf, n + 1, 2 * n)]
WriteScratch(buf, n, c) == c.tmp1 \o c.tmp2 \o SubSeq(buf, 2 * n + 1, Len(buf))
Frame(call, buf, n) ==
  [arg |-> call.arg, res |-> call.res,
   tmp1 |-> Scratch(buf, n).tmp1, tmp2 |-> Scratch(buf, n).tmp2, calls |-> 0]

\* spsolve reads and writes sp_jac_.size1() entries of the scratch vectors,
\* which hold n_ entries each.
SpInBounds == sp_jac_.nrow <= n_

\* A whole structural call op on the work buffer b.
SpCall(op, b, call) ==
  LET c == SpRunFrom(op, 1, Node, Frame(call, w[b], n_))
  IN  IF SpInBounds
      THEN /\ last' = [op |-> op, arg |-> call.arg, res |-> call.res, w |-> w[b],
                       ret |-> [ok |-> TRUE, arg |-> c.arg, res |-> c.res,
                                passes |-> c.calls]]
           /\ w' = [w EXCEPT ![b] = WriteScratch(w[b], n_, c)]
      ELSE /\ last' = [op |-> op, arg |-> call.arg, res |-> call.res, w |-> w[b],
                       ret |-> [ok |-> FALSE, arg |-> call.arg, res |-> call.res,
                                passes |-> 0]]
           /\ w' = w

\* Rootfinder::sp_fwd.
sp_fwd ==
  /\ CanCall
  /\ \E b \in DOMAIN w : \E call \in pool.spf : SpCall("sp_fwd", b, call)
  /\ ncalls' = ncalls + 1
  /\ UNCHANGED <<Members, linsol_, inv, pool, nlp>>

\* Rootfinder::sp_rev.
sp_rev ==
  /\ CanCall
  /\ \E b \in DOMAIN w : \E call \in pool.spr : SpCall("sp_rev", b, call)
  /\ ncalls' = ncalls + 1
  /\ UNCHANGED <<Members, linsol_, inv, pool, nlp>>


(***************************************************************************)
(* NlpSolverInternal (part_000): the derivative functions of the NLP,      *)
(* generated on first use and kept in the members gradF_, jacF_, jacG_,    *)
(* gradLag_, hessLag_ and spHessLag_.  A Function is modelled by its       *)
(* numbers of inputs and outputs, where it comes from, and the serial      *)
(* number of its generation; nlp is the solver: ng, the functions set as   *)
(* options, the members, how many times each derivative was generated,     *)
(* how many accessor calls were made, and what the latest one returned.    *)
(***************************************************************************)
\* A solver serves at most MaxAccess accessor calls in one behaviour.
MaxAccess == 3

\* The signatures the code asserts.
NL_NUM_IN == 2
NL_NUM_OUT == 2
GRADF_NUM_IN == 2
GRADF_NUM_OUT == 3
JACG_NUM_IN == 2
JACG_NUM_OUT == 3
HESSLAG_NUM_IN == 4
HESSLAG_NUM_OUT == 5

Fn(n_in, n_out, from, serial) ==
  [n_in |-> n_in, n_out |-> n_out, from |-> from, serial |-> serial]
\* Function(): isNull() holds of it alone.
NullFn == Fn(0, 0, "null", 0)
\* nlp_, after the assertions of init.
NlpFunction == Fn(NL_NUM_IN, NL_NUM_OUT, "nlp", 0)

\* Function::gradient and Function::jacobian: the inputs of f; the
\* derivative, then the outputs of f.
FnGradient(f, k) == Fn(f.n_in, f.n_out + 1, "generated", k)
FnJacobian(f, k) == Fn(f.n_in, f.n_out + 1, "generated", k)
\* Function::derivative(0, 1): the inputs of f and an adjoint seed for every
\* output; the outputs of f and an adjoint sensitivity for every input.
FnDerivative(f, k) == Fn(f.n_in + f.n_out, f.n_out + f.n_in, "generated", k)
\* Function::jacSparsity: a Sparsity, which is not null.
FnJacSparsity(f, k) == Fn(0, 0, "sparsity", k)

OptionNames == {"grad_f", "jac_f", "jac_g", "grad_lag", "hess_lag"}
Derivatives == {"gradF", "jacF", "jacG", "gradLag", "hessLag", "spHessLag"}
hasSetOption(s, name) == s.option[name] # NullFn

\* What a getter returns: the solver after it, whether it returned (no
\* assertion failed), and the function.
Got(s, ok, fn) == [s |-> s, ok |-> ok, fn |-> fn]
Generated(s, name) == [s EXCEPT !.generated[name] = @ + 1]

\* NlpSolverInternal::getGradF.
getGradF(s) ==
  LET g == Generated(s, "gradF")
      gradF == IF hasSetOption(s, "grad_f") THEN s.option["grad_f"]
               ELSE FnGradient(NlpFunction, g.generated["gradF"])
  IN  Got(IF hasSetOption(s, "grad_f") THEN s ELSE g,
          gradF.n_in = GRADF_NUM_IN /\ gradF.n_out = GRADF_NUM_OUT, gradF)

\* NlpSolverInternal::getJacF.
getJacF(s) ==
  LET g == Generated(s, "jacF")
      jacF == IF hasSetOption(s, "jac_f") THEN s.option["jac_f"]
              ELSE FnJacobian(NlpFunction, g.generated["jacF"])
  IN  Got(IF hasSetOption(s, "jac_f") THEN s ELSE g,
          jacF.n_in = GRADF_NUM_IN /\ jacF.n_out = GRADF_NUM_OUT, jacF)

\* NlpSolverInternal::getJacG: null if no constraints.
getJacG(s) ==
  LET g == Generated(s, "jacG")
      jacG == IF hasSetOption(s, "jac_g") THEN s.option["jac_g"]
              ELSE FnJacobian(NlpFunction, g.generated["jacG"])
  IN  IF s.ng = 0 THEN Got(s, TRUE, NullFn)
      ELSE Got(IF hasSetOption(s, "jac_g") THEN s ELSE g,
               jacG.n_in = JACG_NUM_IN /\ jacG.n_out = JACG_NUM_OUT, jacG)

\* NlpSolverInternal::getGradLag: no assertion on the signature.
getGradLag(s) ==
  LET g == Generated(s, "gradLag")
      gradLag == IF hasSetOption(s, "grad_lag") THEN s.option["grad_lag"]
                 ELSE FnDerivative(NlpFunction, g.generated["gradLag"])
  IN  Got(IF hasSetOption(s, "grad_lag") THEN s ELSE g, TRUE, gradLag)

\* An accessor on the member m, r being what its getter returns on s: the
\* getter runs if the member is null, and what it returns is assigned to the
\* member; an assertion that fails in the getter leaves the member as it is.
\* (NeverCached: an accessor that assigns nothing.)
NeverCached(s, m, r) == IF s[m] = NullFn THEN Got(r.s, r.ok, r.fn) ELSE Got(s, TRUE, s[m])
Cached(s, m, r) ==
  IF s[m] # NullFn THEN Got(s, TRUE, s[m])
  ELSE IF r.ok THEN Got([r.s EXCEPT ![m] = r.fn], TRUE, r.fn)
  ELSE Got(r.s, FALSE, NullFn)

\* NlpSolverInternal::getHessLag: without the option hess_lag, the Hessian
\* is the Jacobian of what gradLag() returns.
getHessLag(s) ==
  LET gl == Cached(s, "gradLag_", getGradLag(s))
      g == Generated(gl.s, "hessLag")
      hessLag == IF hasSetOption(s, "hess_lag") THEN s.option["hess_lag"]
                 ELSE FnJacobian(gl.fn, g.generated["hessLag"])
  IN  Got(IF hasSetOption(s, "hess_lag") THEN s ELSE g,
          hessLag.n_in = HESSLAG_NUM_IN /\ hessLag.n_out = HESSLAG_NUM_OUT, hessLag)

\* NlpSolverInternal::getSpHessLag: the sparsity of the Jacobian of what
\* gradLag() returns.
getSpHessLag(s) ==
  LET gl == Cached(s, "gradLag_", getGradLag(s))
      g == Generated(gl.s, "spHessLag")
  IN  Got(g, TRUE, FnJacSparsity(gl.fn, g.generated["spHessLag"]))

\* The Rootfinder node, which no accessor of the solver touches.
RootfinderVars == <<oracle_, opts, state, err, iin_, iout_, n_, u_c_, jac_f_z, sp_jac_,
                    linsol_, sz_w, nsetup, ncalls, last, w, inv, pool>>
\* No solver: the behaviours of the Rootfinder node.
NoSolver == [ng |-> 0, naccess |-> MaxAccess]

\* The solver after an accessor call op that made r of it.
AfterCall(op, r) ==
  [r.s EXCEPT !.naccess = @ + 1, !.ret = [op |-> op, ok |-> r.ok, fn |-> r.fn]]

\* NlpSolverInternal::gradF.
gradF ==
  /\ nlp.naccess < MaxAccess
  /\ nlp' = AfterCall("gradF", Cached(nlp, "gradF_", getGradF(nlp)))
  /\ UNCHANGED RootfinderVars

\* NlpSolverInternal::jacF.
jacF ==
  /\ nlp.naccess < MaxAccess
  /\ nlp' = AfterCall("jacF", Cached(nlp, "jacF_", getJacF(nlp)))
  /\ UNCHANGED RootfinderVars

\* NlpSolverInternal::jacG.
jacG ==
  /\ nlp.naccess < MaxAccess
  /\ nlp' = AfterCall("jacG", Cached(nlp, "jacG_", getJacG(nlp)))
  /\ UNCHANGED RootfinderVars

\* NlpSolverInternal::gradLag.
gradLag ==
  /\ nlp.naccess < MaxAccess
  /\ nlp' = AfterCall("gradLag", Cached(nlp, "gradLag_", getGradLag(nlp)))
  /\ UNCHANGED RootfinderVars

\* NlpSolverInternal::hessLag.
hessLag ==
  /\ nlp.naccess < MaxAccess
  /\ nlp' = AfterCall("hessLag", Cached(nlp, "hessLag_", getHessLag(nlp)))
  /\ UNCHANGED RootfinderVars

\* NlpSolverInternal::spHessLag.
spHessLag ==
  /\ nlp.naccess < MaxAccess
  /\ nlp' = AfterCall("spHessLag", Cached(nlp, "spHessLag_", getSpHessLag(nlp)))
  /\ UNCHANGED RootfinderVars


(***************************************************************************)
(* The Oracles and option dictionaries a behaviour starts from.            *)
(***************************************************************************)
DenseCol(k) == [nrow |-> k, ncol |-> 1, nnz |-> k]
SparseCol == [nrow |-> 2, ncol |-> 1, nnz |-> 1]
DenseRow == [nrow |-> 1, ncol |-> 2, nnz |-> 2]
Descr == {DenseCol(1), DenseCol(2), SparseCol, DenseRow}

FullNz(a, b) == (1..a) \X (1..b)
DiagNz(a) == {<<k, k>> : k \in 1..a}
NzOf(M) == {p \in FullNz(NRows(M), NCols(M)) : M[p[1]][p[2]] # 0}

\* The blocks <<output, input>> of an Oracle with these sparsities.
Blocks(sp_in, sp_out) == (DOMAIN sp_out) \X (DOMAIN sp_in)

Oracle(sp_in, sp_out, dep, lin) ==
  [n_in |-> Cardinality(DOMAIN sp_in), n_out |-> Cardinality(DOMAIN sp_out),
   sp_in |-> sp_in, sp_out |-> sp_out, dep |-> dep, lin |-> lin, sz_w |-> 1]

\* Generic values: block <<o, i>> is (1 + 2o + i) * [[1, 2], [3, 5]] on its
\* pattern, so that every structurally non-singular block is non-singular.
GenericEntry(o, i, r, c) == (1 + 2 * o + i) * <<<<1, 2>>, <<3, 5>>>>[r][c]
GenericLin(sp_in, sp_out, dep) ==
  [p \in Blocks(sp_in, sp_out) |->
     [r \in 1..sp_out[p[1]].nnz |->
        [c \in 1..sp_in[p[2]].nnz |->
           IF <<r, c>> \in dep[p] THEN GenericEntry(p[1], p[2], r, c) ELSE 0]]]
FullDep(sp_in, sp_out) ==
  [p \in Blocks(sp_in, sp_out) |-> FullNz(sp_out[p[1]].nnz, sp_in[p[2]].nnz)]
GenericOracle(sp_in, sp_out, dep) == Oracle(sp_in, sp_out, dep, GenericLin(sp_in, sp_out, dep))

\* An option is <<given, value>>.
NotGiven(v) == <<FALSE, v>>
Given(v) == <<TRUE, v>>
Options(ii, io, uc, jf) ==
  [given |-> {k \in {"implicit_input", "implicit_output", "constraints",
                     "jacobian_function"} :
                CASE k = "implicit_input" -> ii[1]
                  [] k = "implicit_output" -> io[1]
                  [] k = "constraints" -> uc[1]
                  [] k = "jacobian_function" -> jf[1]},
   implicit_input |-> ii[2], implicit_output |-> io[2],
   constraints |-> uc[2], jacobian_function |-> jf[2]]

IndexOptions == {NotGiven(0)} \cup {Given(k) : k \in -1..2}
InRange(k) == IF k = 0 THEN {NotGiven(0), Given(0)} ELSE {Given(k)}
ConstraintOptions == {NotGiven(<<>>), Given(<<0>>), Given(<<1, -1>>), Given(<<0, 2, -2>>)}
NoJacobian == NotGiven(NullFunction)

\* A Jacobian function of the caller: k x k, with the pattern nz and the
\* value 3 on it.
UserJacobian(k, nz) ==
  [sp |-> [nrow |-> k, ncol |-> k, nz |-> nz],
   val |-> [r \in 1..k |-> [c \in 1..k |-> IF <<r, c>> \in nz THEN 3 ELSE 0]],
   sz_w |-> 2]

\* Sparsities of j inputs (outputs): the one at index z is sp, the others
\* dense scalars.
Sparsities(j, z, sp) == [i \in 0..(j - 1) |-> IF i = z THEN sp ELSE DenseCol(1)]

\* The indices: any number of inputs and outputs, any implicit index.
IndexConfigs ==
  {[oracle |-> GenericOracle(Sparsities(j, 0, DenseCol(1)), Sparsities(k, 0, DenseCol(1)),
                             FullDep(Sparsities(j, 0, DenseCol(1)),
                                     Sparsities(k, 0, DenseCol(1)))),
    opts |-> Options(ii, io, NotGiven(<<>>), NoJacobian)] :
     j \in 0..2, k \in 0..2, ii \in IndexOptions, io \in IndexOptions}

\* The shapes: any sparsity of the unknown and of the residual.
Shapes == {<<1, 0>>, <<2, 0>>, <<2, 1>>}
ShapeConfigs ==
  UNION {UNION {
    LET sp_in == Sparsities(a[1], a[2], zi)
        sp_out == Sparsities(b[1], b[2], ro)
    IN  {[oracle |-> GenericOracle(sp_in, sp_out, FullDep(sp_in, sp_out)),
          opts |-> Options(ii, io, NotGiven(<<>>), NoJacobian)] :
           ii \in InRange(a[2]), io \in InRange(b[2])}
    : zi \in Descr, ro \in Descr} : a \in Shapes, b \in Shapes}

\* The Jacobians and constraints: a square system of n unknowns, with any
\* pattern of the Oracle's Jacobian or a Jacobian function of the caller,
\* and any constraint vector.
JacobianChoices(n) ==
  {<<nz, NoJacobian>> : nz \in SUBSET FullNz(n, n)} \cup
  {<<nz, Given(UserJacobian(k, IF e THEN {} ELSE DiagNz(k)))>> :
     nz \in {{}, FullNz(n, n)}, k \in 1..2, e \in BOOLEAN}
JacobianConfigs ==
  UNION {UNION {
    LET sp_in == Sparsities(a[1], a[2], DenseCol(n))
        sp_out == Sparsities(a[1], a[3], DenseCol(n))
        dep == [FullDep(sp_in, sp_out) EXCEPT ![<<a[3], a[2]>>] = jc[1]]
    IN  {[oracle |-> GenericOracle(sp_in, sp_out, dep),
          opts |-> Options(Given(a[2]), Given(a[3]), uc, jc[2])] :
           uc \in ConstraintOptions}
    : jc \in JacobianChoices(n)}
    : a \in {<<1, 0, 0>>, <<2, 0, 0>>, <<2, 1, 1>>, <<2, 0, 1>>}, n \in 1..2}

Configs == IndexConfigs \cup ShapeConfigs \cup JacobianConfigs

\* The implicit indices a configuration asks for, and whether they are
\* indices of the Oracle.
AskedIn(cfg) == ReadOption(cfg.opts, "implicit_input", 0)
AskedOut(cfg) == ReadOption(cfg.opts, "implicit_output", 0)
Indexed(cfg) ==
  /\ ImplicitInputInRange(cfg.oracle, AskedIn(cfg))
  /\ ImplicitOutputInRange(cfg.oracle, AskedOut(cfg))

\* A caller with a few calls of every kind.
SomeCalls(cfg) ==
  LET orc == cfg.oracle
      iin == AskedIn(cfg)
      iout == AskedOut(cfg)
      bits == [i \in Ins(orc) |-> AllBits(nnz_in(orc, i))]
      outbits == [o \in Outs(orc) |-> AllBits(nnz_out(orc, o))]
      clear == [o \in Outs(orc) |-> NoBits(nnz_out(orc, o))]
  IN  IF ~Indexed(cfg) THEN NoPool
      ELSE [fwd |-> {<<>>, <<OnesAcc(orc)>>},
            adj |-> {[aseed |-> <<>>, asens |-> <<>>],
                     [aseed |-> <<[o \in Outs(orc) |->
                                     [j \in 1..nnz_out(orc, o) |-> RInt(1)]]>>,
                      asens |-> <<EmptyAcc(orc)>>]},
            spf |-> {[arg |-> bits, res |-> clear],
                     [arg |-> [bits EXCEPT ![iin] = Null],
                      res |-> [clear EXCEPT ![iout] = Null]]},
            spr |-> {[arg |-> bits, res |-> outbits],
                     [arg |-> [i \in Ins(orc) |-> NoBits(nnz_in(orc, i))],
                      res |-> [outbits EXCEPT ![iout] = Null]]}]

\* A work buffer of the caller: long enough for the scratch vectors of any
\* output of the Oracle; it holds anything.
RECURSIVE MaxOf(_)
MaxOf(S) == IF S = {} THEN 0
            ELSE LET x == CHOOSE y \in S : TRUE
                     m == MaxOf(S \ {x})
                 IN  IF x > m THEN x ELSE m
WorkLen(orc) == 2 * MaxOf({nnz_out(orc, o) : o \in Outs(orc)})
WorkBuffers(orc) == {NoBits(WorkLen(orc)) \o <<>>, AllBits(WorkLen(orc)) \o <<>>}

\* A node the factory has instantiated and not set up yet, in a caller
\* with the prepared calls pl and the work buffers bufs.
Start(cfg, pl, bufs) ==
  /\ oracle_ = cfg.oracle
  /\ opts = cfg.opts
  /\ state = "Unset"
  /\ err = NoError
  /\ iin_ = 0
  /\ iout_ = 0
  /\ n_ = 0
  /\ u_c_ = <<>>
  /\ jac_f_z = NullFunction
  /\ sp_jac_ = NullSparsity
  /\ linsol_ = NoLinsol
  /\ sz_w = 0
  /\ nsetup = 0
  /\ ncalls = 0
  /\ last = NoCall
  /\ w = bufs
  /\ inv = <<>>
  /\ pool = pl
  /\ nlp = NoSolver

Init == \E cfg \in Configs : Start(cfg, SomeCalls(cfg), <<AllBits(WorkLen(cfg.oracle)) \o <<>> >>)

Next ==
  \/ rootfinder
  \/ init_memory
  \/ eval
  \/ forward
  \/ reverse
  \/ sp_fwd
  \/ sp_rev

Spec == Init /\ [][Next]_vars

(***************************************************************************)
(* Numeric propagation: Oracles with any small linearisation, one call of  *)
(* forward or reverse prepared by the caller.                              *)
(***************************************************************************)
\* The entries of a 1 x 1 derivative block.
EntryVals == {-1, 0, 2}
Scalar(v) == <<<<v>>>>

\* Two scalar inputs, one or two scalar outputs, every block any entry.
ScalarOracles(n_out) ==
  LET sp_in == Sparsities(2, 0, DenseCol(1))
      sp_out == Sparsities(n_out, 0, DenseCol(1))
  IN  {Oracle(sp_in, sp_out, [p \in Blocks(sp_in, sp_out) |-> NzOf(Scalar(v[p]))],
              [p \in Blocks(sp_in, sp_out) |-> Scalar(v[p])]) :
         v \in [Blocks(sp_in, sp_out) -> EntryVals]}

\* F(z, p) = z^2 - p at p = 4, z = 2: dF/dz = 2 z = 4, dF/dp = -1.
ExampleOracle ==
  LET sp_in == Sparsities(2, 0, DenseCol(1))
      sp_out == Sparsities(1, 0, DenseCol(1))
      lin == (<<0, 0>> :> Scalar(4)) @@ (<<0, 1>> :> Scalar(-1))
  IN  Oracle(sp_in, sp_out, [p \in Blocks(sp_in, sp_out) |-> NzOf(lin[p])], lin)

\* Two unknowns z and one parameter p; the residual and one auxiliary output.
VectorOracles ==
  LET sp_in == Sparsities(2, 0, DenseCol(2))
      sp_out == Sparsities(2, 0, DenseCol(2))
  IN  {LET lin == (<<0, 0>> :> J) @@ (<<0, 1>> :> B) @@ (<<1, 0>> :> C) @@ (<<1, 1>> :> D)
       IN  Oracle(sp_in, sp_out, [p \in Blocks(sp_in, sp_out) |-> NzOf(lin[p])], lin) :
         J \in {<<<<1, 2>>, <<3, 5>>>>, <<<<2, 0>>, <<1, -1>>>>, <<<<1, 1>>, <<1, 1>>>>},
         B \in {<<<<1>>, <<0>>>>, <<<<-1>>, <<2>>>>},
         C \in {<<<<1, -1>>>>},
         D \in {Scalar(0), Scalar(2)}}

ADConfigs ==
  {[oracle |-> orc, opts |-> Options(Given(k), Given(k), NotGiven(<<>>), NoJacobian)] :
     orc \in ScalarOracles(2), k \in 0..1} \cup
  {[oracle |-> orc, opts |-> Options(Given(k), NotGiven(0), NotGiven(<<>>), NoJacobian)] :
     orc \in ScalarOracles(1), k \in 0..1} \cup
  {[oracle |-> orc, opts |-> Options(NotGiven(0), NotGiven(0), NotGiven(<<>>), NoJacobian)] :
     orc \in VectorOracles \cup {ExampleOracle}}

\* A caller with one call of forward, or one call of reverse.
NumericCalls(cfg) ==
  {[NoPool EXCEPT !.fwd = {c}] : c \in FwdCalls(cfg.oracle)} \cup
  {[NoPool EXCEPT !.adj = {c}] : c \in AdjCalls(cfg.oracle)}

InitAD ==
  \E cfg \in ADConfigs : \E pl \in NumericCalls(cfg) :
    Start(cfg, pl, <<AllBits(WorkLen(cfg.oracle)) \o <<>> >>)

NextAD ==
  \/ rootfinder
  \/ forward
  \/ reverse

SpecAD == InitAD /\ [][NextAD]_vars

(***************************************************************************)
(* Structural propagation: two unknowns z, a parameter p, the residual and *)
(* an auxiliary output y, with any patterns of the derivative blocks, and  *)
(* one call of sp_fwd or sp_rev prepared by the caller.                    *)
(***************************************************************************)
\* The Oracle with input sparsities sp_in, output sparsities sp_out, the
\* unknown at index z of the inputs and the residual at index z of the
\* outputs, the other input p and the other output y, and the patterns J
\* (residual, z), B (residual, p), C (y, z), D (y, p); the values are
\* generic on the patterns val, which the patterns dep contain.
PatternOracle(sp_in, sp_out, z, dep, val) ==
  LET blk(M) == (<<z, z>> :> M[1]) @@ (<<z, 1 - z>> :> M[2]) @@
                (<<1 - z, z>> :> M[3]) @@ (<<1 - z, 1 - z>> :> M[4])
  IN  Oracle(sp_in, sp_out, blk(dep), GenericLin(sp_in, sp_out, blk(val)))

\* The patterns of a 2 x 2 Jacobian that setup accepts.
Matched == {J \in SUBSET FullNz(2, 2) : ~is_singular([nrow |-> 2, ncol |-> 2, nz |-> J])}

\* y a scalar that depends on p through z only.
ThroughUnknown ==
  LET sp_in == Sparsities(2, 0, DenseCol(2))
      sp_out == Sparsities(2, 0, DenseCol(2))
  IN  {PatternOracle(sp_in, sp_out, 0, <<J, B, C, {}>>, <<J, B, C, {}>>) :
         J \in Matched, B \in SUBSET FullNz(2, 1), C \in SUBSET FullNz(1, 2)}

\* Patterns that over-approximate the values: a full pattern J, B, C, D
\* with values on a part of it only.
OverApproximated ==
  LET sp_in == Sparsities(2, 0, DenseCol(2))
      sp_out == Sparsities(2, 0, DenseCol(2))
  IN  {PatternOracle(sp_in, sp_out, 0,
                     <<FullNz(2, 2), FullNz(2, 1), FullNz(1, 2), FullNz(1, 1)>>,
                     <<J, B, C, {}>>) :
         J \in {DiagNz(2), FullNz(2, 2)}, B \in SUBSET FullNz(2, 1),
         C \in {{}, {<<1, 1>>}}}

\* y = z: the auxiliary output is the unknown itself.
AuxIsUnknown(z) ==
  LET sp_in == Sparsities(2, z, DenseCol(2))
      sp_out == [o \in 0..1 |-> DenseCol(2)]
  IN  {PatternOracle(sp_in, sp_out, z, <<J, B, DiagNz(2), {}>>, <<J, B, DiagNz(2), {}>>) :
         J \in Matched, B \in SUBSET FullNz(2, 1)}

\* The residual alone: no auxiliary output.
ResidualOnly ==
  LET sp_in == Sparsities(2, 0, DenseCol(2))
      sp_out == Sparsities(1, 0, DenseCol(2))
  IN  {LET dep == (<<0, 0>> :> J) @@ (<<0, 1>> :> B)
       IN  Oracle(sp_in, sp_out, dep, GenericLin(sp_in, sp_out, dep)) :
         J \in {DiagNz(2), FullNz(2, 2) \ {<<1, 2>>}}, B \in {{<<1, 1>>}, FullNz(2, 1)}}

SPConfigs ==
  {[oracle |-> orc, opts |-> Options(NotGiven(0), NotGiven(0), NotGiven(<<>>), NoJacobian)] :
     orc \in ThroughUnknown \cup OverApproximated \cup AuxIsUnknown(0) \cup ResidualOnly} \cup
  {[oracle |-> orc, opts |-> Options(Given(1), Given(1), NotGiven(<<>>), NoJacobian)] :
     orc \in AuxIsUnknown(1)}

\* A caller with one call of sp_fwd, or one call of sp_rev.
StructuralCalls(cfg) ==
  {[NoPool EXCEPT !.spf = {c}] :
     c \in SpFwdCalls(cfg.oracle, AskedIn(cfg), AskedOut(cfg))} \cup
  {[NoPool EXCEPT !.spr = {c}] :
     c \in SpRevCalls(cfg.oracle, AskedIn(cfg), AskedOut(cfg))}

InitSP ==
  \E cfg \in SPConfigs : \E pl \in StructuralCalls(cfg) :
    Start(cfg, pl, <<AllBits(WorkLen(cfg.oracle)) \o <<>> >>)

NextSP ==
  \/ rootfinder
  \/ sp_fwd
  \/ sp_rev

SpecSP == InitSP /\ [][NextSP]_vars

(***************************************************************************)
(* Invocations of sp_fwd and sp_rev by two threads of the caller, step by  *)
(* step.  inv[t] is the invocation of thread t: its operation, its work    *)
(* buffer b, the step pc it takes next, its words arg and res, the call it *)
(* was handed, and whether no other invocation has taken a step on its     *)
(* buffer between its first step and its last.                             *)
(***************************************************************************)
Threads == {1, 2}
Idle == [op |-> "none", b |-> 0, pc |-> 0, arg |-> <<>>, res |-> <<>>,
         call |-> [arg |-> <<>>, res |-> <<>>], undisturbed |-> TRUE]
Running(i) == i.pc \in 2..NSteps
Returned(i) == i.pc = NSteps + 1

\* A thread enters sp_fwd or sp_rev with a call and a work buffer.
sp_enter ==
  /\ state = "Ready"
  /\ ncalls < MaxCalls
  /\ \E t \in DOMAIN inv : \E b \in DOMAIN w :
     \E op \in {"sp_fwd", "sp_rev"} :
     \E call \in IF op = "sp_fwd" THEN pool.spf ELSE pool.spr :
       /\ inv[t].pc = 0
       /\ inv' = [inv EXCEPT ![t] = [op |-> op, b |-> b, pc |-> 1, arg |-> call.arg,
                                     res |-> call.res, call |-> call,
                                     undisturbed |-> TRUE]]
  /\ ncalls' = ncalls + 1
  /\ UNCHANGED <<Members, linsol_, last, w, pool, nlp>>

\* A thread takes the next step of its invocation on its work buffer.
sp_step ==
  /\ \E t \in DOMAIN inv :
       /\ inv[t].pc \in 1..NSteps
       /\ LET i == inv[t]
              c0 == [arg |-> i.arg, res |-> i.res,
                     tmp1 |-> Scratch(w[i.b], n_).tmp1, tmp2 |-> Scratch(w[i.b], n_).tmp2,
                     calls |-> 0]
              c == SpStep(i.op, i.pc, Node, c0)
          IN  /\ w' = [w EXCEPT ![i.b] = WriteScratch(w[i.b], n_, c)]
              /\ inv' = [u \in DOMAIN inv |->
                           IF u = t
                           THEN [i EXCEPT !.arg = c.arg, !.res = c.res, !.pc = i.pc + 1]
                           ELSE IF Running(inv[u]) /\ inv[u].b = i.b
                           THEN [inv[u] EXCEPT !.undisturbed = FALSE]
                           ELSE inv[u]]
  /\ UNCHANGED <<Members, linsol_, ncalls, last, pool, nlp>>

\* A 2 x 2 system with a triangular Jacobian and the unknown as auxiliary
\* output, or a full Jacobian and a scalar auxiliary output.
ConcConfigs ==
  {[oracle |-> orc, opts |-> Options(NotGiven(0), NotGiven(0), NotGiven(<<>>), NoJacobian)] :
     orc \in {o \in AuxIsUnknown(0) \cup ThroughUnknown :
                /\ o.dep[<<0, 0>>] \in {FullNz(2, 2), {<<1, 1>>, <<2, 1>>, <<2, 2>>}}
                /\ o.dep[<<0, 1>>] = {<<1, 1>>}
                /\ o.dep[<<1, 0>>] \in {DiagNz(2), {<<1, 2>>}}}}

\* A caller with two calls of sp_fwd and two of sp_rev that differ.
ConcurrentCalls(cfg) ==
  LET orc == cfg.oracle
      args == [i \in Ins(orc) |-> AllBits(nnz_in(orc, i))]
      outs == [o \in Outs(orc) |-> [j \in 1..nnz_out(orc, o) |-> {1}]]
  IN  [NoPool EXCEPT
         !.spf = {[arg |-> args, res |-> [o \in Outs(orc) |-> NoBits(nnz_out(orc, o))]],
                  [arg |-> [i \in Ins(orc) |-> NoBits(nnz_in(orc, i))],
                   res |-> [o \in Outs(orc) |-> NoBits(nnz_out(orc, o))]]},
         !.spr = {[arg |-> [i \in Ins(orc) |-> NoBits(nnz_in(orc, i))], res |-> outs],
                  [arg |-> [i \in Ins(orc) |-> NoBits(nnz_in(orc, i))],
                   res |-> [o \in Outs(orc) |-> NoBits(nnz_out(orc, o))]]}]

InitConc ==
  \E cfg \in ConcConfigs : \E bufs \in {<<x>> : x \in WorkBuffers(cfg.oracle)} \cup
                                       {<<x, x>> : x \in WorkBuffers(cfg.oracle)} :
    /\ oracle_ = cfg.oracle
    /\ opts = cfg.opts
    /\ state = "Unset"
    /\ err = NoError
    /\ iin_ = 0
    /\ iout_ = 0
    /\ n_ = 0
    /\ u_c_ = <<>>
    /\ jac_f_z = NullFunction
    /\ sp_jac_ = NullSparsity
    /\ linsol_ = NoLinsol
    /\ sz_w = 0
    /\ nsetup = 0
    /\ ncalls = 0
    /\ last = NoCall
    /\ w = bufs
    /\ inv = [t \in Threads |-> Idle]
    /\ pool = ConcurrentCalls(cfg)
    /\ nlp = NoSolver

NextConc ==
  \/ rootfinder
  \/ sp_enter
  \/ sp_step

SpecConc == InitConc /\ [][NextConc]_vars

(***************************************************************************)
(* The NLP solver: any number of constraints ng in 0..1, any of the        *)
(* options grad_f, jac_f, jac_g, grad_lag, hess_lag set, to a function of  *)
(* the signature the solver expects or, for grad_f, grad_lag and hess_lag, *)
(* of another one; any accessor calls in any order.                        *)
(***************************************************************************)
\* A function of the signature the solver expects for the option, and one
\* with an input less.
Expected(name) ==
  CASE name = "grad_lag" -> Fn(NL_NUM_IN + NL_NUM_OUT, NL_NUM_OUT + NL_NUM_IN, "option", 0)
    [] name = "hess_lag" -> Fn(HESSLAG_NUM_IN, HESSLAG_NUM_OUT, "option", 0)
    [] name = "jac_g" -> Fn(JACG_NUM_IN, JACG_NUM_OUT, "option", 0)
    [] OTHER -> Fn(GRADF_NUM_IN, GRADF_NUM_OUT, "option", 0)
Unexpected(name) == [Expected(name) EXCEPT !.n_in = @ - 1]
OptionValues(name) ==
  {NullFn, Expected(name)} \cup
  (IF name \in {"grad_f", "grad_lag", "hess_lag"} THEN {Unexpected(name)} ELSE {})

NlpSolvers ==
  {[ng |-> ng, option |-> o,
    gradF_ |-> NullFn, jacF_ |-> NullFn, jacG_ |-> NullFn, gradLag_ |-> NullFn,
    hessLag_ |-> NullFn, spHessLag_ |-> NullFn,
    generated |-> [d \in Derivatives |-> 0], naccess |-> 0,
    ret |-> [op |-> "none", ok |-> TRUE, fn |-> NullFn]] :
     ng \in 0..1,
     o \in {f \in [OptionNames -> UNION {OptionValues(x) : x \in OptionNames}] :
              \A x \in OptionNames : f[x] \in OptionValues(x)}}

InitNlp ==
  /\ oracle_ = ExampleOracle
  /\ opts = Options(NotGiven(0), NotGiven(0), NotGiven(<<>>), NoJacobian)
  /\ state = "Unset"
  /\ err = NoError
  /\ iin_ = 0
  /\ iout_ = 0
  /\ n_ = 0
  /\ u_c_ = <<>>
  /\ jac_f_z = NullFunction
  /\ sp_jac_ = NullSparsity
  /\ linsol_ = NoLinsol
  /\ sz_w = 0
  /\ nsetup = 0
  /\ ncalls = 0
  /\ last = NoCall
  /\ w = <<>>
  /\ inv = <<>>
  /\ pool = NoPool
  /\ nlp \in NlpSolvers

NextNlp ==
  \/ gradF
  \/ jacF
  \/ jacG
  \/ gradLag
  \/ hessLag
  \/ spHessLag

SpecNlp == InitNlp /\ [][NextNlp]_vars

(***************************************************************************)
(* The properties.  What the factory was asked for is read off oracle_ and *)
(* opts, which no action changes.                                          *)
(***************************************************************************)
AskedInput == IF "implicit_input" \in opts.given THEN opts.implicit_input ELSE 0
AskedOutput == IF "implicit_output" \in opts.given THEN opts.implicit_output ELSE 0
AskedConstraints == IF "constraints" \in opts.given THEN opts.constraints ELSE <<>>
InputOutside == AskedInput < 0 \/ AskedInput >= oracle_.n_in
OutputOutside == AskedOutput < 0 \/ AskedOutput >= oracle_.n_out
DenseColumn(sp) == sp.ncol = 1 /\ sp.nnz = sp.nrow
UnknownNotDenseColumn ==
  ~InputOutside /\ ~OutputOutside /\ ~DenseColumn(oracle_.sp_in[AskedInput])
ResidualNotDenseColumn ==
  ~InputOutside /\ ~OutputOutside /\ ~DenseColumn(oracle_.sp_out[AskedOutput])
SizesDiffer ==
  /\ ~InputOutside /\ ~OutputOutside
  /\ oracle_.sp_in[AskedInput].nnz # oracle_.sp_out[AskedOutput].nnz
ConstraintsMismatch ==
  /\ ~InputOutside /\ ~OutputOutside
  /\ Len(AskedConstraints) \notin {0, oracle_.sp_out[AskedOutput].nnz}
Misconfigured ==
  \/ InputOutside \/ OutputOutside
  \/ UnknownNotDenseColumn \/ ResidualNotDenseColumn
  \/ SizesDiffer \/ ConstraintsMismatch
ConfigurationErrors ==
  {InputRangeMsg, OutputRangeMsg, ResidualDenseMsg, UnknownDenseMsg, DimensionMsg,
   ConstraintMsg}
\* Setup got as far as the Jacobian of the residual.
JacobianBuilt == state # "Unset" /\ jac_f_z # NullFunction

\* C1: once setup has built the Jacobian of the residual, if its sparsity is
\* structurally singular then setup has failed with the structural
\* singularity error, the node is not Ready and no evaluate or propagation
\* call has run on it.
C1_SingularJacobianRejected ==
  (JacobianBuilt /\ is_singular(sp_jac_)) =>
     /\ state = "Failed"
     /\ err.msg = SingularMsg
     /\ ncalls = 0
     /\ last = NoCall

\* A 2 x 2 Jacobian with entries and no perfect matching was rejected.
C1_Witness ==
  /\ state = "Failed"
  /\ err.msg = SingularMsg
  /\ sp_jac_.nrow = 2
  /\ Cardinality(sp_jac_.nz) = 2
  /\ is_singular(sp_jac_)

\* C2 as stated: in each case of misconfiguration setup fails with a
\* configuration error and the node is not Ready; otherwise, the Jacobian
\* being structurally non-singular, setup succeeds.
C2_AsStated ==
  state # "Unset" =>
     /\ Misconfigured => (state = "Failed" /\ err.msg \in ConfigurationErrors)
     /\ (~Misconfigured /\ ~is_singular(sp_jac_)) => state = "Ready"

\* C2, amended: in each case of misconfiguration setup fails and the node is
\* not Ready; the error is a configuration error, except that a mismatch of
\* the constraint vector alone, on a structurally singular Jacobian, fails
\* with the structural singularity error, which is checked before it.
\* Otherwise, the Jacobian being structurally non-singular, setup succeeds.
C2_ConfigurationErrors ==
  state # "Unset" =>
     /\ Misconfigured =>
          /\ state = "Failed"
          /\ err.msg \in ConfigurationErrors \cup {SingularMsg}
          /\ err.msg = SingularMsg =>
               /\ ConstraintsMismatch
               /\ ~UnknownNotDenseColumn /\ ~ResidualNotDenseColumn /\ ~SizesDiffer
               /\ is_singular(sp_jac_)
     /\ (~Misconfigured /\ ~is_singular(sp_jac_)) => state = "Ready"

\* A constraint vector of a wrong length on a non-singular 2 x 2 system was
\* rejected with the configuration error.
C2_Witness ==
  /\ state = "Failed"
  /\ err = Error(ConstraintMsg, <<3, 2>>)
  /\ ~is_singular(sp_jac_)
  /\ n_ = 2

\* C8: a node starts Unset; it becomes Ready only from Unset, by the one
\* setup the factory runs; calls are served only by a Ready node, after that
\* setup; and a step from a Ready node leaves it Ready without another setup.
C8_Lifecycle ==
  /\ state = "Unset" /\ nsetup = 0 /\ ncalls = 0
  /\ [][/\ (state # "Ready" /\ state' = "Ready") =>
             (state = "Unset" /\ nsetup = 0 /\ nsetup' = 1)
        /\ (ncalls' # ncalls \/ last' # last) => (state = "Ready" /\ nsetup = 1)
        /\ state = "Ready" => (state' = "Ready" /\ nsetup' = nsetup)
        /\ state = "Failed" => state' = "Failed"]_vars

\* A Ready node has served MaxCalls calls, the latest a structural one after
\* a numeric one would have been possible, and was set up once.
C8_Witness ==
  /\ state = "Ready"
  /\ nsetup = 1
  /\ ncalls = MaxCalls
  /\ ncalls > 1
  /\ last.op = "sp_rev"
  /\ linsol_.prepared

\* C9: a step from a Ready node (every call, and init_memory) leaves the
\* Oracle, iin_, iout_, n_, the Jacobian function and sp_jac_ unchanged, and
\* a prepared linear solver is prepared for sp_jac_.
C9_MembersUnchanged ==
  [][state = "Ready" =>
       /\ UNCHANGED <<oracle_, iin_, iout_, n_, jac_f_z, sp_jac_>>
       /\ linsol_'.prepared => linsol_'.sp = sp_jac_']_vars

\* A structural call has written the work buffer of a node whose linear
\* solver is prepared for a 2 x 2 sparsity.
C9_Witness ==
  /\ state = "Ready"
  /\ linsol_.prepared
  /\ linsol_.sp = sp_jac_
  /\ sp_jac_.nrow = 2
  /\ last.op = "sp_fwd"
  /\ last.w # w[1]

\* The latest call was forward with one direction, and the linear solve
\* succeeded.
ForwardDone == last.op = "forward" /\ last.fseed # <<>> /\ last.ret.ok
GuessSeeds == [1..n_ -> SeedVals]
Zero(v) == \A j \in 1..Len(v) : v[j] = RZero

\* C3: whatever seed the caller supplies for the guess input iin_ in place
\* of the one it supplied, forward returns the same seeds on every output.
C3_GuessInvariance ==
  (last.op = "forward" /\ last.fseed # <<>>) =>
     \A g \in GuessSeeds :
        RootfinderForward(oracle_, jac_f_z, iin_, iout_,
                          <<[last.fseed[1] EXCEPT ![iin_] = g]>>) = last.ret

\* forward ran with a non-zero seed on the guess and a non-zero seed on a
\* true input, on a node with an auxiliary output that received a seed.
C3_Witness ==
  /\ ForwardDone
  /\ oracle_.n_out > 1
  /\ ~Zero(last.fseed[1][iin_])
  /\ \E i \in Ins(oracle_) \ {iin_} : ~Zero(last.fseed[1][i])
  /\ \A o \in Outs(oracle_) : ~Zero(last.ret.fsens[1][o])

\* C4: the seed forward returns for iout_ is the dz with J dz = -dr, J the
\* value of the Jacobian function and dr the Oracle's residual seed for the
\* caller's seeds with the seed of iin_ set to zero; on the example
\* F = z^2 - p at p = 4, z = 2 with dp = 1 it is 1/4.
C4_ImplicitFunctionTheorem ==
  ForwardDone =>
     LET dz == last.ret.fsens[1][iout_]
         seed0 == [last.fseed[1] EXCEPT ![iin_] = Zeros(n_)]
         dr == OracleForward(oracle_, seed0)[iout_]
     IN  /\ MatVec(RMat(jac_f_z.val), dz) = VNeg(dr)
         /\ (oracle_ = ExampleOracle /\ last.fseed[1][1] = <<RInt(1)>>) => dz = <<<<1, 4>>>>

\* The example: forward with dp = 1 returned dz = 1/4.
C4_Witness ==
  /\ ForwardDone
  /\ oracle_ = ExampleOracle
  /\ last.fseed[1][1] = <<RInt(1)>>
  /\ last.ret.fsens[1][0] = <<<<1, 4>>>>

\* The two sides of the adjoint inner-product identity for forward seeds
\* fseed with sensitivities fsens and adjoint seeds aseed with adjoints asens.
RECURSIVE DotOver(_, _, _)
DotOver(S, x, y) ==
  IF S = {} THEN RZero
  ELSE LET k == CHOOSE j \in S : TRUE
       IN  RAdd(Dot(x[k], y[k]), DotOver(S \ {k}, x, y))
Duality(fseed, fsens, aseed, asens) ==
  DotOver(Ins(oracle_) \ {iin_}, fseed, asens) = DotOver(Outs(oracle_), aseed, fsens)

\* C5: the sensitivities a forward call returned and the adjoints reverse
\* computes from empty accumulators satisfy the inner-product identity, for
\* all adjoint seeds on the outputs.
C5_AdjointForwardDuality ==
  ForwardDone =>
     \A aseed \in AdjSeedSet(oracle_) :
        LET r == RootfinderReverse(oracle_, jac_f_z, iin_, iout_,
                                   <<aseed>>, <<EmptyAcc(oracle_)>>)
        IN  r.ok /\ Duality(last.fseed[1], last.ret.fsens[1], aseed, r.asens[1])

\* forward ran on a 2 x 2 system with an auxiliary output, with a seed on
\* the parameter, and both sides of the identity are non-zero for adjoint
\* seeds on the root and on the auxiliary output.
C5_Witness ==
  /\ ForwardDone
  /\ n_ = 2
  /\ oracle_.n_out > 1
  /\ \E aseed \in AdjSeedSet(oracle_) :
       /\ \A o \in Outs(oracle_) : ~Zero(aseed[o])
       /\ DotOver(Outs(oracle_), aseed, last.ret.fsens[1]) # RZero
       /\ DotOver(Ins(oracle_) \ {iin_}, last.fseed[1],
                  RootfinderReverse(oracle_, jac_f_z, iin_, iout_,
                                    <<aseed>>, <<EmptyAcc(oracle_)>>).asens[1]) # RZero

\* The true inputs, and the forward seed that is 1 on entry c of input i and
\* 0 elsewhere.
TrueInputs == Ins(oracle_) \ {iin_}
UnitSeed(i, c) ==
  [k \in Ins(oracle_) |->
     [j \in 1..nnz_in(oracle_, k) |-> IF k = i /\ j = c THEN RInt(1) ELSE RZero]]
\* The patterns of the Oracle and of the Jacobian contain the non-zeros of
\* their values.
OverApproximates ==
  /\ \A p \in DOMAIN oracle_.lin : NzOf(oracle_.lin[p]) \subseteq oracle_.dep[p]
  /\ NzOf(jac_f_z.val) \subseteq sp_jac_.nz

\* C6: when the patterns of the Oracle contain the non-zeros of its values,
\* every output entry whose numeric forward sensitivity to an entry of a
\* true input is non-zero carries, after sp_fwd, the bits that entry was
\* seeded with.
C6_StructuralCoversNumeric ==
  (last.op = "sp_fwd" /\ last.ret.ok /\ OverApproximates) =>
     \A i \in TrueInputs : \A c \in 1..nnz_in(oracle_, i) :
        LET f == RootfinderForward(oracle_, jac_f_z, iin_, iout_, <<UnitSeed(i, c)>>)
        IN  f.ok =>
              \A o \in Outs(oracle_) : \A r \in 1..nnz_out(oracle_, o) :
                 (last.res[o] # Null /\ f.fsens[1][o][r] # RZero) =>
                    last.arg[i][c] \subseteq last.ret.res[o][r]

\* sp_fwd ran with a bit on the parameter and no word for the unknown; the
\* auxiliary output, which depends on the parameter through z only, has a
\* non-zero numeric sensitivity and carries the bit.
C6_Witness ==
  /\ last.op = "sp_fwd"
  /\ last.ret.ok
  /\ iin_ = 0
  /\ oracle_.n_out > 1
  /\ nnz_out(oracle_, 1) = 1
  /\ oracle_.dep[<<1, 1>>] = {}
  /\ last.arg[0] = Null
  /\ last.arg[1] = <<{1}>>
  /\ last.res[0] = Null
  /\ last.ret.res[1] = <<{1}>>
  /\ RootfinderForward(oracle_, jac_f_z, iin_, iout_, <<UnitSeed(1, 1)>>).fsens[1][1][1]
       # RZero

\* The Oracle has one auxiliary output, which is the unknown itself.
AuxOutput == 1 - iout_
AuxOutputIsUnknown ==
  /\ oracle_.n_in = 2
  /\ oracle_.n_out = 2
  /\ oracle_.dep[<<AuxOutput, iin_>>] = DiagNz(n_)
  /\ oracle_.dep[<<AuxOutput, 1 - iin_>>] = {}
\* Words with the bit b on entry c of input (output) i and no bit elsewhere.
ArgSeed(i, c, b) ==
  [k \in Ins(oracle_) |->
     [j \in 1..nnz_in(oracle_, k) |-> IF k = i /\ j = c THEN {b} ELSE {}]]
ResSeed(o, r, b) ==
  [k \in Outs(oracle_) |->
     [j \in 1..nnz_out(oracle_, k) |-> IF k = o /\ j = r THEN {b} ELSE {}]]
ResClear == [k \in Outs(oracle_) |-> NoBits(nnz_out(oracle_, k))]
ArgClear == [k \in Ins(oracle_) |-> NoBits(nnz_in(oracle_, k))]

\* C7: on a node whose auxiliary output is the unknown itself, a call of
\* sp_fwd seeded with a bit on one entry a of the true input sets the bit on
\* the entry b of the auxiliary output iff sp_rev seeded with the bit on b
\* sets it on a; and a call of sp_rev seeded on b sets the bit on a iff
\* sp_fwd seeded on a sets it on b.
C7_StructuralRoundTrip ==
  AuxOutputIsUnknown =>
     \A i \in TrueInputs : \A c \in 1..nnz_in(oracle_, i) :
     \A r \in 1..nnz_out(oracle_, AuxOutput) : \A b \in Bits :
        /\ (last.op = "sp_fwd" /\ last.ret.ok /\ last.arg = ArgSeed(i, c, b)) =>
             (b \in last.ret.res[AuxOutput][r]
                <=> b \in RootfinderSpRev(Node,
                            Frame([arg |-> ArgClear, res |-> ResSeed(AuxOutput, r, b)],
                                  w[1], n_)).arg[i][c])
        /\ (last.op = "sp_rev" /\ last.ret.ok /\ last.arg = ArgClear
              /\ last.res = ResSeed(AuxOutput, r, b)) =>
             (b \in last.ret.arg[i][c]
                <=> b \in RootfinderSpFwd(Node,
                            Frame([arg |-> ArgSeed(i, c, b), res |-> ResClear],
                                  w[1], n_)).res[AuxOutput][r])

\* sp_rev ran seeded with a bit on the second entry of y = z alone, on a
\* node whose Jacobian is not diagonal, and set the bit on the parameter.
C7_Witness ==
  /\ AuxOutputIsUnknown
  /\ last.op = "sp_rev"
  /\ last.ret.ok
  /\ last.arg = ArgClear
  /\ last.res = ResSeed(AuxOutput, 2, 1)
  /\ sp_jac_.nz # DiagNz(2)
  /\ last.ret.arg[1 - iin_] = <<{1}>>

\* What a call returns when it runs alone on a cleared work buffer.
Alone(op, call) ==
  LET c == SpRunFrom(op, 1, Node, Frame(call, NoBits(WorkLen(oracle_)), n_))
  IN  [arg |-> c.arg, res |-> c.res]
Result(i) == [arg |-> i.arg, res |-> i.res]

\* C10: an invocation that has returned, and on whose work buffer no other
\* invocation took a step while it ran (the caller serialized them, or gave
\* each its own buffer), returns what it returns when run alone.
C10_SerializedAsAlone ==
  \A t \in DOMAIN inv :
     (Returned(inv[t]) /\ inv[t].undisturbed) => Result(inv[t]) = Alone(inv[t].op, inv[t].call)

\* Two invocations on one work buffer have returned; the steps of one ran
\* between the steps of the other, which returned something else than it
\* returns alone, while the first returned what it returns alone.
C10_Witness ==
  /\ DOMAIN w = {1}
  /\ DOMAIN inv = Threads
  /\ \E t \in Threads : \E u \in Threads \ {t} :
       /\ Returned(inv[t]) /\ Returned(inv[u])
       /\ inv[t].undisturbed
       /\ Result(inv[t]) = Alone(inv[t].op, inv[t].call)
       /\ ~inv[u].undisturbed
       /\ Result(inv[u]) # Alone(inv[u].op, inv[u].call)

\* C11: a setup that fails reports a condition, never none; an index out of
\* range is reported with the offending index, and a size mismatch (unknown
\* against residual, constraint vector against n, structural rank against
\* dimension) with the two sizes.
C11_DescriptiveErrors ==
  state = "Failed" =>
     /\ err # NoError
     /\ err.msg = InputRangeMsg => err.info = <<AskedInput>>
     /\ err.msg = OutputRangeMsg => err.info = <<AskedOutput>>
     /\ err.msg = DimensionMsg =>
          err.info = <<oracle_.sp_in[AskedInput].nnz, oracle_.sp_out[AskedOutput].nnz>>
     /\ err.msg = ConstraintMsg => err.info = <<Len(AskedConstraints), n_>>
     /\ err.msg = SingularMsg => err.info = <<sprank(sp_jac_), sp_jac_.nrow>>

\* C12: on a Ready node n_ is the number of entries of the unknown and of the
\* residual, and sp_jac_ is n_ x n_ and structurally non-singular, whether
\* the Jacobian function was generated from the Oracle or given by the
\* caller in the option jacobian_function.
C12_JacobianSquareOfSizeN ==
  state = "Ready" =>
     /\ n_ = nnz_in(oracle_, iin_)
     /\ n_ = nnz_out(oracle_, iout_)
     /\ sp_jac_.nrow = n_
     /\ sp_jac_.ncol = n_
     /\ ~is_singular(sp_jac_)

\* The latest call was reverse with one direction, and the linear solve
\* succeeded.
ReverseDone == last.op = "reverse" /\ last.aseed # <<>> /\ last.ret.ok
\* The value an adjoint accumulator stands for: an empty one is a zero.
Held(a, i) == IF a[i] = <<>> THEN Zeros(nnz_in(oracle_, i)) ELSE a[i]
AuxOutputs == Outs(oracle_) \ {iout_}
\* lin<<o,i>>^T * s summed over the outputs o of S.
RECURSIVE BackThrough(_, _, _)
BackThrough(S, i, s) ==
  IF S = {} THEN Zeros(nnz_in(oracle_, i))
  ELSE LET o == CHOOSE x \in S : TRUE
       IN  VAdd(MatVec(Transpose(RMat(oracle_.lin[<<o, i>>])), s[o]),
                BackThrough(S \ {o}, i, s))
\* The multiplier of a reverse call: J^T lambda = -(seed of iout_ + what the
\* auxiliary seeds send back to z).
Lambda(aseed) ==
  LinsolSolve(RMat(jac_f_z.val),
              VNeg(VAdd(aseed[iout_], BackThrough(AuxOutputs, iin_, aseed))), TRUE)
\* What the Oracle's reverse propagation computes for input i from lambda on
\* iout_.
FromLambda(aseed, i) == MatVec(Transpose(RMat(oracle_.lin[<<iout_, i>>])), Lambda(aseed))

\* C13: after reverse the adjoint of iin_ is what the caller had put there (a
\* zero of the size of the unknown for an empty slot), whatever the Oracle's
\* passes computed for iin_; every other input holds the direct contribution
\* of the auxiliary seeds on top of what it held and what lambda sent back.
C13_GuessAdjointKept ==
  ReverseDone =>
     /\ last.ret.asens[1][iin_] = Held(last.asens[1], iin_)
     /\ Len(last.ret.asens[1][iin_]) = n_
     /\ \A i \in TrueInputs :
          last.ret.asens[1][i] =
             VAdd(VAdd(Held(last.asens[1], i), FromLambda(last.aseed[1], i)),
                  BackThrough(AuxOutputs, i, last.aseed[1]))

\* reverse ran on a node with an auxiliary output, on accumulators holding
\* ones; both passes of the Oracle computed a non-zero adjoint for iin_, and
\* a true input received a non-zero direct contribution.
C13_Witness ==
  /\ ReverseDone
  /\ oracle_.n_out > 1
  /\ last.asens[1] = OnesAcc(oracle_)
  /\ ~Zero(BackThrough(AuxOutputs, iin_, last.aseed[1]))
  /\ ~Zero(FromLambda(last.aseed[1], iin_))
  /\ \E i \in TrueInputs : ~Zero(BackThrough(AuxOutputs, i, last.aseed[1]))

\* The right-hand side of the transposed solve of a reverse call: the seed of
\* iout_, plus, with auxiliary outputs, the adjoint of z from the auxiliary
\* seeds alone.
CombinedSeed(aseed) ==
  IF oracle_.n_out = 1 THEN aseed[iout_]
  ELSE VAdd(aseed[iout_], BackThrough(AuxOutputs, iin_, aseed))

\* C14: reverse makes one transposed solve J^T lambda = -rhs, rhs the seed of
\* iout_ plus what the auxiliary seeds send back to z (the seed of iout_ alone
\* when n_out = 1); the adjoint of each true input is what it held, plus
\* lambda sent back through the Oracle from iout_ alone, plus the direct
\* contribution of the auxiliary seeds, once.
C14_ReverseAlgorithm ==
  ReverseDone =>
     LET aseed == last.aseed[1]
         J == RMat(jac_f_z.val)
         lambda == LinsolSolve(J, VNeg(CombinedSeed(aseed)), TRUE)
         direct(i) == BackThrough(AuxOutputs, i, aseed)
     IN  /\ last.ret.solves = 1
         /\ last.ret.passes = IF oracle_.n_out > 1 THEN 2 ELSE 1
         /\ MatVec(Transpose(J), lambda) = VNeg(CombinedSeed(aseed))
         /\ \A i \in TrueInputs :
              /\ VAdd(last.ret.asens[1][i], VNeg(Held(last.asens[1], i))) =
                    VAdd(BackThrough({iout_}, i, [aseed EXCEPT ![iout_] = lambda]), direct(i))
              /\ ~Zero(direct(i)) =>
                    VAdd(last.ret.asens[1][i], VNeg(Held(last.asens[1], i))) #
                       VAdd(BackThrough({iout_}, i, [aseed EXCEPT ![iout_] = lambda]),
                            VAdd(direct(i), direct(i)))

\* reverse ran on a 2 x 2 system with an auxiliary output and empty
\* accumulators: the auxiliary seed reached z and a true input directly, and
\* the seed of iout_ was not zero.
C14_Witness ==
  /\ ReverseDone
  /\ n_ = 2
  /\ oracle_.n_out > 1
  /\ last.asens[1] = EmptyAcc(oracle_)
  /\ ~Zero(last.aseed[1][iout_])
  /\ ~Zero(BackThrough(AuxOutputs, iin_, last.aseed[1]))
  /\ \E i \in TrueInputs :
       /\ ~Zero(BackThrough(AuxOutputs, i, last.aseed[1]))
       /\ ~Zero(last.ret.asens[1][i])

\* The solved seed of a forward call: J dz = -dr, dr the residual seed of the
\* first pass, made with the seed of the guess set to zero.
SolvedDz(fseed) ==
  LinsolSolve(RMat(jac_f_z.val),
              VNeg(OracleForward(oracle_, [fseed EXCEPT ![iin_] = Zeros(n_)])[iout_]), FALSE)

\* C15: a forward call with a direction makes exactly one linear solve; with
\* auxiliary outputs the Oracle is propagated twice, every auxiliary seed is
\* what the Oracle gives with the solved dz as the seed of z, and the seed of
\* iout_ is the solved dz; with n_out = 1 the Oracle is propagated once.
C15_ForwardSecondPass ==
  (last.op = "forward" /\ last.fseed # <<>>) =>
     /\ last.ret.solves = 1
     /\ last.ret.ok =>
          LET dz == SolvedDz(last.fseed[1])
              second == OracleForward(oracle_, [last.fseed[1] EXCEPT ![iin_] = dz])
          IN  /\ last.ret.fsens[1][iout_] = dz
              /\ last.ret.passes = IF oracle_.n_out > 1 THEN 2 ELSE 1
              /\ \A o \in AuxOutputs : last.ret.fsens[1][o] = second[o]

\* forward ran on a node with an auxiliary output: the solved dz is not zero,
\* the second pass recomputed a different residual seed, and the auxiliary
\* seed differs from the one of the first pass.
C15_Witness ==
  /\ ForwardDone
  /\ oracle_.n_out > 1
  /\ LET dz == SolvedDz(last.fseed[1])
         zeroed == [last.fseed[1] EXCEPT ![iin_] = Zeros(n_)]
         second == OracleForward(oracle_, [last.fseed[1] EXCEPT ![iin_] = dz])
     IN  /\ ~Zero(dz)
         /\ second[iout_] # dz
         /\ \E o \in AuxOutputs :
              /\ last.ret.fsens[1][o] # OracleForward(oracle_, zeroed)[o]
              /\ ~Zero(last.ret.fsens[1][o])

\* The latest call was sp_fwd (sp_rev) and ran within its scratch vectors.
SpFwdDone == last.op = "sp_fwd" /\ last.ret.ok
SpRevDone == last.op = "sp_rev" /\ last.ret.ok
\* The bits entry r of output o takes from the words a of the inputs in S.
BitsFrom(o, r, a, S) ==
  UNION {a[p[1]][p[2]] : p \in {q \in InEntries(oracle_) :
                                  q[1] \in S /\ <<r, q[2]>> \in oracle_.dep[<<o, q[1]>>]}}
\* The bits of z: the structural solve of the residual bits of the true
\* inputs alone.
SolvedBits(arg) ==
  spsolve(sp_jac_, NoBits(n_), [r \in 1..n_ |-> BitsFrom(iout_, r, arg, TrueInputs)], FALSE)

\* C16: after sp_fwd the words of iout_, when the caller gave a buffer, are
\* the non-transposed structural solve of the residual bits of the true
\* inputs alone; every auxiliary output holds the Oracle's bits of the true
\* inputs and of the solved bits in the place of iin_, with or without a
\* buffer for iout_; nothing returned depends on the caller's words for
\* iin_; the Oracle is called twice with auxiliary outputs, once without.
C16_SpFwdAlgorithm ==
  SpFwdDone =>
     LET z == SolvedBits(last.arg)
         zin == [last.arg EXCEPT ![iin_] = z]
     IN  /\ last.res[iout_] = Null => last.ret.res[iout_] = Null
         /\ last.res[iout_] # Null => last.ret.res[iout_] = z
         /\ \A o \in AuxOutputs : \A r \in 1..nnz_out(oracle_, o) :
              last.ret.res[o][r] = BitsFrom(o, r, zin, Ins(oracle_))
         /\ last.ret.passes = IF oracle_.n_out > 1 THEN 2 ELSE 1
         /\ last.ret.arg = last.arg

\* sp_fwd ran with a bit on the unknown and a bit on the parameter, without a
\* buffer for iout_, on a node whose auxiliary output depends on z and whose
\* residual depends on the parameter: the auxiliary output holds the
\* parameter's bit through z.
C16_Witness ==
  /\ SpFwdDone
  /\ oracle_.n_out > 1
  /\ last.arg[iin_] # Null
  /\ \E j \in 1..n_ : last.arg[iin_][j] # {}
  /\ last.res[iout_] = Null
  /\ \E j \in 1..n_ : SolvedBits(last.arg)[j] # {}
  /\ \E o \in AuxOutputs : \E r \in 1..nnz_out(oracle_, o) :
       /\ BitsFrom(o, r, last.arg, TrueInputs) = {}
       /\ last.ret.res[o][r] # {}


\* The bits entry c of input i takes back from the words s of the outputs
\* in S.
BitsBack(i, c, s, S) ==
  UNION {s[p[1]][p[2]] : p \in {q \in OutEntries(oracle_) :
                                  q[1] \in S /\ <<q[2], c>> \in oracle_.dep[<<q[1], i>>]}}
\* The seed of z in sp_rev: the words of iout_ (none without a buffer), with
\* what the auxiliary outputs send back to z.
SeedOfZ(res) ==
  [c \in 1..n_ |->
     (IF res[iout_] = Null THEN {} ELSE res[iout_][c]) \cup
     BitsBack(iin_, c, res, AuxOutputs)]
\* The seed after the transposed structural solve.
SolvedBack(res) == spsolve(sp_jac_, NoBits(n_), SeedOfZ(res), TRUE)

\* C17: after sp_rev the words of iout_ are cleared, the caller's words for
\* iin_ are what they were, and every true input holds what it held, OR the
\* seed of z (the words of iout_ OR what the auxiliary outputs send to z)
\* through the transposed structural solve and the Oracle, OR what the
\* auxiliary outputs send to it directly; without a buffer for iout_ its
\* seed is empty.
C17_SpRevAlgorithm ==
  SpRevDone =>
     LET lam == [last.res EXCEPT ![iout_] = SolvedBack(last.res)]
     IN  /\ last.res[iout_] = Null => last.ret.res[iout_] = Null
         /\ last.res[iout_] # Null => last.ret.res[iout_] = NoBits(n_)
         /\ last.ret.arg[iin_] = last.arg[iin_]
         /\ \A i \in TrueInputs : \A c \in 1..nnz_in(oracle_, i) :
              last.ret.arg[i][c] =
                 last.arg[i][c] \cup BitsBack(i, c, lam, {iout_})
                                \cup BitsBack(i, c, last.res, AuxOutputs)

\* sp_rev ran on inputs without bits, with a bit on iout_; the Oracle's
\* residual depends on z, the bit reached a true input through the solve,
\* and the words of iin_ are still without bits.
C17_Witness ==
  /\ SpRevDone
  /\ oracle_.n_out > 1
  /\ last.arg = ArgClear
  /\ last.res[iout_] # Null
  /\ \E j \in 1..n_ : last.res[iout_][j] # {}
  /\ last.ret.arg[iin_] = NoBits(n_)
  /\ \E c \in 1..n_ : BitsBack(iin_, c, [last.res EXCEPT ![iout_] = SolvedBack(last.res)],
                               {iout_}) # {}
  /\ \E i \in TrueInputs : \E c \in 1..nnz_in(oracle_, i) :
       /\ BitsBack(i, c, last.res, AuxOutputs) = {}
       /\ last.ret.arg[i][c] # {}

\* What a structural call op returns for the words call on the work buffer
\* buf.
OnBuffer(op, call, buf) ==
  LET c == SpRunFrom(op, 1, Node, Frame(call, buf, n_))
  IN  [arg |-> c.arg, res |-> c.res]

\* C18: sp_fwd and sp_rev return, on the work buffer they were given (one
\* with every bit set, or what an earlier call left), what they return on a
\* buffer of zeros; and the work vector allocated at setup holds the two
\* scratch vectors of n_ entries and, after them, the work region of the
\* Oracle.
C18_ScratchContentIrrelevant ==
  /\ state = "Ready" => sz_w >= 2 * n_ + oracle_.sz_w
  /\ (SpFwdDone \/ SpRevDone) =>
        /\ Len(last.w) >= 2 * n_
        /\ OnBuffer(last.op, [arg |-> last.arg, res |-> last.res],
                     NoBits(WorkLen(oracle_))) =
              [arg |-> last.ret.arg, res |-> last.ret.res]

\* sp_rev ran without a buffer for iout_ on a work buffer an earlier call
\* left with bits in one scratch vector and none in the other; bits reached
\* a true input from the auxiliary output through z.
C18_Witness ==
  /\ SpRevDone
  /\ ncalls = 2
  /\ last.res[iout_] = Null
  /\ last.w \notin WorkBuffers(oracle_)
  /\ \E j \in 1..(2 * n_) : last.w[j] # {}
  /\ last.arg = ArgClear
  /\ \E i \in TrueInputs : \E c \in 1..nnz_in(oracle_, i) : last.ret.arg[i][c] # {}
  /\ OnBuffer("sp_rev", [arg |-> last.arg, res |-> last.res], last.w).arg = last.ret.arg

\* The Jacobian of the residual the Oracle generates or the caller gave, for
\* indices in range.
AskedJacobian ==
  IF "jacobian_function" \in opts.given /\ opts.jacobian_function # NullFunction
  THEN opts.jacobian_function.sp
  ELSE [nrow |-> oracle_.sp_out[AskedOutput].nnz, ncol |-> oracle_.sp_in[AskedInput].nnz,
        nz |-> oracle_.dep[<<AskedOutput, AskedInput>>]]
\* The message of the first check that fails, in the order of the checks.
FirstFailure ==
  IF InputOutside THEN InputRangeMsg
  ELSE IF OutputOutside THEN OutputRangeMsg
  ELSE IF ResidualNotDenseColumn THEN ResidualDenseMsg
  ELSE IF UnknownNotDenseColumn THEN UnknownDenseMsg
  ELSE IF SizesDiffer THEN DimensionMsg
  ELSE IF sprank(AskedJacobian) < AskedJacobian.nrow
            \/ AskedJacobian.nrow # AskedJacobian.ncol THEN SingularMsg
  ELSE IF ConstraintsMismatch THEN ConstraintMsg
  ELSE "none"

\* C19: setup reports the first check that fails in the order input range,
\* output range, residual dense column, unknown dense column, dimensions,
\* structural singularity, constraints; a singular Jacobian with a
\* constraint vector of a wrong length is reported as singular; the
\* constraint vector is rejected on a node whose Jacobian and linear solver
\* are built; the sparsities of the Oracle are read at indices in range only.
C19_CheckOrder ==
  state # "Unset" =>
     /\ err.msg = FirstFailure
     /\ state = "Failed" <=> FirstFailure # "none"
     /\ err.msg = ConstraintMsg =>
          /\ jac_f_z # NullFunction
          /\ sp_jac_ = AskedJacobian
          /\ linsol_ # NoLinsol
     /\ err.msg \in {InputRangeMsg, OutputRangeMsg} =>
          (jac_f_z = NullFunction /\ linsol_ = NoLinsol /\ n_ = 0)
     /\ err.msg \notin {InputRangeMsg, OutputRangeMsg} =>
          (AskedInput \in Ins(oracle_) /\ AskedOutput \in Outs(oracle_))

\* Setup of a node with a structurally singular Jacobian and a constraint
\* vector of a wrong length failed with the singularity error, before the
\* linear solver was built.
C19_Witness ==
  /\ state = "Failed"
  /\ err.msg = SingularMsg
  /\ ConstraintsMismatch
  /\ AskedConstraints # <<>>
  /\ linsol_ = NoLinsol
  /\ jac_f_z # NullFunction

\* The member an accessor returns.
MemberOf(op) ==
  CASE op = "gradF" -> nlp.gradF_
    [] op = "jacF" -> nlp.jacF_
    [] op = "jacG" -> nlp.jacG_
    [] op = "gradLag" -> nlp.gradLag_
    [] op = "hessLag" -> nlp.hessLag_
    [] op = "spHessLag" -> nlp.spHessLag_

\* C20: over any accessor calls, each derivative is generated at most once
\* and a call returns the member; once hessLag or spHessLag was generated
\* (the option hess_lag not set), gradLag_ holds a function; with ng = 0,
\* jacG returns a null function and generates nothing.
C20_LazyCaches ==
  /\ \A d \in Derivatives : nlp.generated[d] <= 1
  /\ (nlp.ret.op # "none" /\ nlp.ret.ok) => nlp.ret.fn = MemberOf(nlp.ret.op)
  /\ (nlp.generated["hessLag"] > 0 \/ nlp.generated["spHessLag"] > 0) => nlp.gradLag_ # NullFn
  /\ nlp.ng = 0 =>
       /\ nlp.jacG_ = NullFn
       /\ nlp.generated["jacG"] = 0
       /\ nlp.ret.op = "jacG" => (nlp.ret.ok /\ nlp.ret.fn = NullFn)

\* C20, where it holds: a derivative whose member holds a function was
\* generated at most once, and a call that returns returns the member; a
\* derivative is generated again only when the assertions of its getter
\* rejected it, which leaves the member null: the Hessian generated from a
\* grad_lag option of another signature than the solver's.  Once hessLag or spHessLag was
\* generated, gradLag_ holds a function; with ng = 0, jacG returns a null
\* function and generates nothing.
C20_LazyCachesOfAcceptedFunctions ==
  /\ \A d \in Derivatives :
       /\ MemberOf(d) # NullFn => nlp.generated[d] <= 1
       /\ MemberOf(d).from \in {"generated", "sparsity"} =>
            (nlp.generated[d] = 1 /\ MemberOf(d).serial = 1)
       /\ nlp.generated[d] > 1 =>
            /\ d = "hessLag"
            /\ nlp.option["grad_lag"] \notin {NullFn, Expected("grad_lag")}
            /\ nlp.option["hess_lag"] = NullFn
  /\ (nlp.ret.op # "none" /\ nlp.ret.ok) => nlp.ret.fn = MemberOf(nlp.ret.op)
  /\ (nlp.generated["hessLag"] > 0 \/ nlp.generated["spHessLag"] > 0) => nlp.gradLag_ # NullFn
  /\ nlp.ng = 0 =>
       /\ nlp.jacG_ = NullFn
       /\ nlp.generated["jacG"] = 0
       /\ nlp.ret.op = "jacG" => (nlp.ret.ok /\ nlp.ret.fn = NullFn)

\* Three calls, of gradLag, hessLag and spHessLag only, the latest of
\* hessLag: the Hessian and its sparsity were generated, each from the one
\* gradient of the Lagrangian that was generated.
C20_Witness ==
  /\ nlp.naccess = 3
  /\ nlp.ret = [op |-> "hessLag", ok |-> TRUE, fn |-> nlp.hessLag_]
  /\ nlp.ng > 0
  /\ nlp.generated = [d \in Derivatives |->
                        IF d \in {"gradLag", "hessLag", "spHessLag"} THEN 1 ELSE 0]
  /\ nlp.gradLag_.from = "generated"
  /\ nlp.hessLag_.from = "generated"
  /\ nlp.jacG_ = NullFn

=============================================================================
